---- MODULE Spec2Model ----
(***************************************************************************)
(* Model of the two orchestrators of the repository.                       *)
(*                                                                         *)
(*  - agent_framework/orchestrator (main.py, task_manager.py,              *)
(*    websocket_manager.py): tasks kept in a TaskManager, driven by        *)
(*    process_task activations created with asyncio.create_task and by     *)
(*    the frames the reader loop of websocket_endpoint handles.            *)
(*    Specification: Spec.                                                 *)
(*                                                                         *)
(*  - CCLLMV2 (orchestrator.py, ws_tools.py, cc_agent_v2.py): one          *)
(*    process_task coroutine per task runs the planner/executor loop of    *)
(*    execute_task_with_two_agents and blocks in call_cc_command on a      *)
(*    future kept in pending_results.                                      *)
(*    Specifications: SpecV2, and FairSpecV2 with the fairness of the      *)
(*    event loop.                                                          *)
(*                                                                         *)
(* asyncio runs one coroutine at a time and switches only at an await      *)
(* that suspends, so every action below is the code between two            *)
(* suspension points.  The suspension points kept are the model call       *)
(* (llm_adapter.chat_completion) and the gap between asyncio.create_task   *)
(* and the first step of the created activation.  A send to a client is    *)
(* taken as one step with the code around it.                              *)
(*                                                                         *)
(* connections is the registry entry of the client the tasks are bound to  *)
(* (task.client_id).  No handler checks which connection a frame came in   *)
(* on, so inbound frames are handled whatever that entry is: they may come *)
(* from the requesting client, which handle_create_task lets differ from   *)
(* the executing one.  Replies to the sender of a frame (task_created,     *)
(* task_update) go to a connection that has just been read from and are    *)
(* taken to be written.  Inbound call ids are strings: ids the server      *)
(* minted, or one it never minted.                                         *)
(***************************************************************************)
EXTENDS Integers, Sequences, FiniteSets, TLC

(***************************************************************************)
(* Bounds of the model.                                                    *)
(***************************************************************************)
\* no model call is started for a task whose history holds this many responses
MaxResponses == 3
\* cancel_task frames handled per task
MaxCancels == 1
\* command_result frames are no longer delivered to a task with this many errors
MaxErrorCount == 4
\* longest batch of tool calls in one model response
MaxBatch == 1
\* SpecRound: no model call is started for a task that has had this many responses
MaxRounds == 2
\* SpecRound: longest batch of tool calls in the first response of a task
MaxRoundBatch == 2
\* SpecSanitize: longest content string of the exhaustive inputs
MaxContentLen == 5
\* SpecSanitize: longest string put inside fenced blocks
MaxFencedLen == 2
\* SpecSanitize: applications of the sanitizer to one content
MaxSanitizeRuns == 2
\* SpecExtract: longest text handed to extract_last_json_object
MaxTextLen == 5
\* SpecValidate: most prose tokens before or after the JSON object
MaxProse == 1

(***************************************************************************)
(* Program constants.                                                      *)
(***************************************************************************)
\* Task.pending_call_id = None
None == 0
\* Task.max_consecutive_errors
max_consecutive_errors == 3
\* process_task: the no-tool-call nudge applies while len(task.history) < 8
NudgeHistoryLimit == 8

\* TaskStatus
QUEUED == "queued"
RUNNING == "running"
WAITING_FOR_COMMAND == "waiting_for_command"
COMPLETED == "completed"
FAILED == "failed"
CANCELLED == "cancelled"
TaskStatus == {QUEUED, RUNNING, WAITING_FOR_COMMAND, COMPLETED, FAILED, CANCELLED}

\* One task is followed: tasks share nothing but the registry entry of their
\* client and the supply of fresh call ids.
TaskIds == {"t1"}
Paths == {"/a.txt"}
Contents == {"v1", "v2"}

VARIABLES
    \* ---- agent_framework orchestrator ----
    tasks,          \* TaskManager.tasks: task_id -> Task
    connections,    \* WebSocketManager.connections entry of the client
    sched,          \* task_id -> process_task activations created, not yet started
    running,        \* task_id -> process_task activations awaiting chat_completion
    sent,           \* task_id -> bag of the frame types written for the task
    cancel_handled, \* task_id -> a cancel_task frame for it has been handled
    next_call_id,   \* uuid4 call ids minted so far
    last_batch,     \* SpecBatch: task_id -> the tool calls of its first response
    \* ---- CCLLMV2 orchestrator ----
    v2_connections, \* ws_manager.connections entry of the client
    reader_error,   \* the reader loop of the connection ended in "except Exception"
    active_tasks,   \* orchestrator.active_tasks: task_id -> status
    pending_results,\* orchestrator.pending_results: the (task_id, call_id) keys
    coro,           \* task_id -> where its process_task coroutine stands
    terminal_frames,\* task_id -> task_completed / task_failed frames handed to send_to_client
    \* ---- text functions of cc_agent_v2.py ----
    text,           \* the string the function is applied to
    runs,           \* how many times it has been applied
    fn_result,      \* what extract_last_json_object / validate_executor_text gave
    \* ---- WebSocketManager on its own ----
    ws_registry,    \* the client ids that are keys of WebSocketManager.connections
    ws_last,        \* the last send_to_client call: its arguments and how it ended
    agents,         \* execute_task_with_two_agents: where one run of the loop is
    cache_task,     \* a task's file_cache and the last handle_patch_cached on it
    endpoints,      \* websocket_endpoint: the registry by websocket and the reader loops
    graph,          \* the agent graph of one task: node to run, AgentState, effects
    legacy          \* execute_task_with_agent: where one run of the loop is

af_vars == <<tasks, connections, sched, running, sent, cancel_handled, next_call_id,
            last_batch>>
v2_vars == <<v2_connections, reader_error, active_tasks, pending_results, coro,
            terminal_frames>>
sa_vars == <<agents, cache_task, endpoints, graph, legacy>>
fn_vars == <<text, runs, fn_result, ws_registry, ws_last, sa_vars>>
vars == <<af_vars, v2_vars, fn_vars>>

(***************************************************************************)
(* Task.__init__ followed by the add_to_history of TaskManager.create_task *)
(***************************************************************************)
NewTask(allowed) ==
    [ status |-> QUEUED,
      history |-> << "system" >>,
      result |-> "None",
      error |-> "None",
      pending_call_id |-> None,
      pending_command |-> "None",
      consecutive_errors |-> 0,
      file_cache |-> [p \in {} |-> "v1"],
      allowed_commands |-> allowed ]

\* The state the handlers work on, as one value.
World == [ tasks |-> tasks, sched |-> sched, running |-> running,
           sent |-> sent, next_call_id |-> next_call_id, sent_ok |-> TRUE ]

(***************************************************************************)
(* TaskManager (task_manager.py).  Every operator maps a world to a world. *)
(***************************************************************************)
\* a history that takes new entries at the front
add_to_history_in_front(w, t, entry) ==
    [w EXCEPT !.tasks[t].history = <<entry>> \o @]

\* task_manager.py 63-66
add_to_history(w, t, entry) ==
    [w EXCEPT !.tasks[t].history = Append(@, entry)]

update_status(w, t, status) ==
    IF t \notin DOMAIN w.tasks THEN w
    ELSE [w EXCEPT !.tasks[t].status = status]

complete_task(w, t, result) ==
    IF t \notin DOMAIN w.tasks THEN w
    ELSE [w EXCEPT !.tasks[t].status = COMPLETED, !.tasks[t].result = result]

fail_task(w, t, error) ==
    IF t \notin DOMAIN w.tasks THEN w
    ELSE [w EXCEPT !.tasks[t].status = FAILED, !.tasks[t].error = error]

set_pending_command(w, t, call_id, command) ==
    IF t \notin DOMAIN w.tasks THEN w
    ELSE [w EXCEPT !.tasks[t].pending_call_id = call_id,
                   !.tasks[t].pending_command = command,
                   !.tasks[t].status = WAITING_FOR_COMMAND]

clear_pending_command(w, t) ==
    IF t \notin DOMAIN w.tasks THEN w
    ELSE [w EXCEPT !.tasks[t].pending_call_id = None,
                   !.tasks[t].pending_command = "None"]

(***************************************************************************)
(* WebSocketManager.send_to_client: False when the client id is not        *)
(* registered or the write raises, True after the write.  A frame that was *)
(* written is added to the bag of its task; sent_ok is the value returned  *)
(* to the caller.                                                          *)
(***************************************************************************)
FrameTypes ==
    {"task_created", "task_update", "status_update", "command_call",
     "user_question", "task_completed", "task_failed"}

Written(w, t, type) == [w EXCEPT !.sent[t][type] = @ + 1, !.sent_ok = TRUE]

send_to_client(w, t, type) ==
    IF connections = "up" THEN Written(w, t, type)
    ELSE [w EXCEPT !.sent_ok = FALSE]

\* asyncio.create_task(process_task(task_id))
create_process_task(w, t) == [w EXCEPT !.sched[t] = @ + 1]

\* LLMAdapter.format_tool_result: the failure text iff error is truthy
format_tool_result(error) == IF error # "None" THEN "tool_err" ELSE "tool_ok"

(***************************************************************************)
(* Inbound command_result frames.  call_id is an id minted so far or one   *)
(* never minted; error is None or a message; result is None or a dict that *)
(* may carry "path" and "content".                                         *)
(***************************************************************************)
NoResult == [has_content |-> FALSE, path |-> "", content |-> "v1"]
Results ==
    {NoResult} \cup
    [has_content : {TRUE}, path : Paths \cup {""}, content : Contents]

CommandResults(ids) ==
    [task_id : TaskIds, call_id : ids, ok : {TRUE},
     result : Results, error : {"None"}]
    \cup
    [task_id : TaskIds, call_id : ids, ok : {FALSE},
     result : {NoResult}, error : {"None", "boom"}]

\* main.py 245-258: history entry, clear the pending call, continue the task
AcceptResult(w, m) ==
    LET t == m.task_id
        entry == format_tool_result(IF m.ok THEN "None" ELSE m.error)
    IN  create_process_task(
            clear_pending_command(add_to_history(w, t, entry), t), t)

\* main.py 219-232: the error counter and its cap
ErrorCapReached(task) == task.consecutive_errors >= max_consecutive_errors

\* main.py 233-243: reset the counter, cache the content of an fs_read
CacheRead(w, m) ==
    LET t == m.task_id
        w1 == [w EXCEPT !.tasks[t].consecutive_errors = 0]
    IN  IF /\ w.tasks[t].pending_command = "fs_read"
           /\ m.result.has_content
           /\ m.result.path # ""
        THEN [w1 EXCEPT !.tasks[t].file_cache =
                 [p \in DOMAIN @ \cup {m.result.path} |->
                     IF p = m.result.path THEN m.result.content ELSE @[p]]]
        ELSE w1

handle_command_result(w, m) ==
    LET t == m.task_id IN
    IF t \notin DOMAIN w.tasks THEN w
    ELSE IF w.tasks[t].pending_call_id # m.call_id THEN w
    ELSE IF ~m.ok
    THEN LET w1 == [w EXCEPT !.tasks[t].consecutive_errors = @ + 1] IN
         IF ErrorCapReached(w1.tasks[t])
         THEN send_to_client(fail_task(w1, t, "too_many_errors"), t,
                             "task_failed")
         ELSE AcceptResult(w1, m)
    ELSE AcceptResult(CacheRead(w, m), m)

(***************************************************************************)
(* Tool calls of a model response.  The arguments are kept as far as the   *)
(* handlers read them: path, dry_run, and flag, which stands for what the  *)
(* handler finds out about the text (ask_user: the question holds a        *)
(* forbidden or parameter pattern; patch_cached: the patch is well formed  *)
(* and applies; lua_check_cached: luac accepts the file).                  *)
(***************************************************************************)
ToolCall(tool, path, flag, dry_run) ==
    [tool |-> tool, path |-> path, flag |-> flag, dry_run |-> dry_run,
     content |-> "v2",
     format |-> "replace_regex", patch |-> IF flag THEN "applies" ELSE "malformed"]

ToolCalls ==
    { ToolCall("fs_read", "/a.txt", FALSE, FALSE),
      ToolCall("run_program", "/a.txt", FALSE, FALSE),
      ToolCall("shell_exec", "", FALSE, FALSE),
      ToolCall("send_status", "", FALSE, FALSE),
      ToolCall("diff_cached", "/a.txt", FALSE, FALSE),
      ToolCall("fs_write_cached", "/a.txt", FALSE, FALSE) }
    \cup { ToolCall("ask_user", "", f, FALSE) : f \in BOOLEAN }
    \cup { ToolCall("lua_check_cached", "/a.txt", f, FALSE) : f \in BOOLEAN }
    \cup { ToolCall("patch_cached", "/a.txt", f, d) : f, d \in BOOLEAN }

\* allowed_commands of the task kind: everything above but shell_exec
AllowedCommands ==
    {"fs_read", "run_program", "send_status", "ask_user", "patch_cached",
     "lua_check_cached", "diff_cached", "fs_write_cached"}

BatchesUpTo(n) == UNION { [1..k -> ToolCalls] : k \in 1..n }

Batches == BatchesUpTo(MaxBatch)

\* uuid.uuid4(): an id never used before
MintCallId(w) == [w EXCEPT !.next_call_id = @ + 1]

\* main.py 387-412
handle_send_status(w, t, continue_processing) ==
    LET w1 == add_to_history(
                  send_to_client(w, t, "status_update"),
                  t, format_tool_result("None"))
    IN  IF continue_processing THEN create_process_task(w1, t) ELSE w1

\* main.py 415-502: rejected is TRUE when the question is turned down
handle_ask_user(w, t, call) ==
    IF call.flag
    THEN [w |-> w, rejected |-> TRUE]
    ELSE LET w1 == MintCallId(w)
             id == w1.next_call_id
         IN  [w |-> send_to_client(set_pending_command(w1, t, id, "ask_user"),
                                   t, "user_question"),
              rejected |-> FALSE]

\* a patch that is written to the cache in a dry run too
patch_cached_ignores_dry_run(task, call) ==
    IF \/ call.path = "" \/ call.path \notin DOMAIN task.file_cache
       \/ call.format \notin {"unified_diff", "replace_regex", "replace_range"}
       \/ call.patch # "applies"
    THEN [ok |-> FALSE, file_cache |-> task.file_cache]
    ELSE [ok |-> TRUE,
          file_cache |-> [task.file_cache EXCEPT ![call.path] = call.content]]

\* main.py 509-622: the result ok and the cache afterwards.  new_content is
\* computed when the format is known and the patch is well formed and
\* applies (call.patch = "applies": patch exits with 0, the text splits in
\* two parts, re.sub and int do not raise); it is call.content.
handle_patch_cached(task, call) ==
    IF \/ call.path = "" \/ call.path \notin DOMAIN task.file_cache
       \/ call.format \notin {"unified_diff", "replace_regex", "replace_range"}
       \/ call.patch # "applies"
    THEN [ok |-> FALSE, file_cache |-> task.file_cache]
    ELSE [ok |-> TRUE,
          file_cache |-> IF call.dry_run THEN task.file_cache
                         ELSE [task.file_cache EXCEPT ![call.path] = call.content]]

\* main.py 625-679
handle_lua_check_cached(task, call) ==
    call.path # "" /\ call.path \in DOMAIN task.file_cache /\ call.flag

\* main.py 728-773: dispatched is TRUE when the batch has to stop
handle_fs_write_cached(w, t, call) ==
    IF call.path = "" \/ call.path \notin DOMAIN w.tasks[t].file_cache
    THEN [w |-> w, dispatched |-> FALSE]
    ELSE LET w1 == MintCallId(w)
             id == w1.next_call_id
             w2 == send_to_client(set_pending_command(w1, t, id, "fs_write"),
                                  t, "command_call")
         IN  [w |-> w2, dispatched |-> w2.sent_ok]

\* main.py 352-376: every other tool goes to the client and stops the batch
DispatchRemote(w, t, call) ==
    LET w1 == MintCallId(w)
        id == w1.next_call_id
    IN  send_to_client(set_pending_command(w1, t, id, call.tool),
                       t, "command_call")

\* a dispatcher that lets every command through
NothingForbidden(task, call) == FALSE

\* main.py 293: the command is not in task.allowed_commands
NotAllowed(task, call) == call.tool \notin task.allowed_commands

RECURSIVE execute_tool_calls(_, _, _)

\* a batch that goes on after a command went to the client
batch_goes_on(w, t, rest) == execute_tool_calls(w, t, rest)

\* main.py 375-376: return, the rest of the batch is not looked at
stop_batch(w, t, rest) == w

\* main.py 265-380
execute_tool_calls(w, t, calls) ==
    IF calls = << >> THEN create_process_task(w, t)
    ELSE
    LET call == Head(calls)
        rest == Tail(calls)
        task == w.tasks[t]
    IN
    IF NotAllowed(task, call)
    THEN execute_tool_calls(add_to_history(w, t, format_tool_result("not allowed")),
                            t, rest)
    ELSE IF call.tool = "send_status"
    THEN execute_tool_calls(handle_send_status(w, t, FALSE), t, rest)
    ELSE IF call.tool = "ask_user"
    THEN LET r == handle_ask_user(w, t, call) IN
         IF r.rejected
         THEN create_process_task(
                  add_to_history(r.w, t, format_tool_result("rejected")), t)
         ELSE stop_batch(r.w, t, rest)
    ELSE IF call.tool = "patch_cached"
    THEN LET r == handle_patch_cached(task, call)
             w1 == [w EXCEPT !.tasks[t].file_cache = r.file_cache]
         IN  execute_tool_calls(
                 add_to_history(w1, t,
                     format_tool_result(IF r.ok THEN "None" ELSE "patch error")),
                 t, rest)
    ELSE IF call.tool = "lua_check_cached"
    THEN execute_tool_calls(
             add_to_history(w, t,
                 format_tool_result(IF handle_lua_check_cached(task, call)
                                    THEN "None" ELSE "check error")),
             t, rest)
    ELSE IF call.tool = "diff_cached"
    THEN execute_tool_calls(add_to_history(w, t, format_tool_result("None")),
                            t, rest)
    ELSE IF call.tool = "fs_write_cached"
    THEN LET r == handle_fs_write_cached(w, t, call) IN
         IF r.dispatched THEN stop_batch(r.w, t, rest)
         ELSE execute_tool_calls(
                  add_to_history(r.w, t, format_tool_result("write error")),
                  t, rest)
    ELSE stop_batch(DispatchRemote(w, t, call), t, rest)

(***************************************************************************)
(* process_task (main.py 780-962), in the two pieces its await of          *)
(* chat_completion cuts it into.                                           *)
(***************************************************************************)
\* What chat_completion gives back: it raises, or it returns a response
\* with parse errors, with tool calls, or with neither; "nudge" is a
\* response without tool calls whose text is suspicious and holds no
\* completion marker.
ResponsesWith(batches) ==
    [kind : {"raise", "parse_errors", "nudge", "final"}, tool_calls : {<< >>}]
    \cup [kind : {"tools"}, tool_calls : batches]

Responses == ResponsesWith(Batches)

\* main.py 787-806: up to the await
process_task_start(w, t) ==
    LET w1 == [w EXCEPT !.sched[t] = @ - 1] IN
    IF t \notin DOMAIN w.tasks THEN w1
    ELSE [update_status(w1, t, RUNNING) EXCEPT !.running[t] = @ + 1]

\* main.py 949-962: the except branch
process_task_failed(w, t) ==
    send_to_client(fail_task(w, t, "exception"), t, "task_failed")

\* main.py 932-944
process_task_complete(w, t) ==
    send_to_client(complete_task(w, t, "message"), t,
                   "task_completed")

\* main.py 807-947: from the return of chat_completion on
process_task_resume(w, t, resp) ==
    LET w0 == [w EXCEPT !.running[t] = @ - 1] IN
    IF resp.kind = "raise" THEN process_task_failed(w0, t)
    ELSE
    LET w1 == add_to_history(w0, t, "assistant") IN
    IF resp.kind = "parse_errors"
    THEN create_process_task(
             [add_to_history(w1, t, "system_error")
                 EXCEPT !.tasks[t].consecutive_errors = 0], t)
    ELSE IF resp.tool_calls = << >>
    THEN IF resp.kind = "nudge" /\ Len(w1.tasks[t].history) < NudgeHistoryLimit
         THEN create_process_task(add_to_history(w1, t, "system_error"), t)
         ELSE process_task_complete(w1, t)
    ELSE execute_tool_calls(w1, t, resp.tool_calls)

(***************************************************************************)
(* Actions of the agent_framework orchestrator.                            *)
(***************************************************************************)
Apply(w) ==
    /\ tasks' = w.tasks
    /\ sched' = w.sched
    /\ running' = w.running
    /\ sent' = w.sent
    /\ next_call_id' = w.next_call_id

\* websocket_endpoint -> WebSocketManager.connect
Connect ==
    /\ connections = "absent"
    /\ connections' = "up"
    /\ UNCHANGED <<tasks, sched, running, sent, cancel_handled, next_call_id, last_batch>>
    /\ UNCHANGED <<v2_vars, fn_vars>>

\* websocket_endpoint: receive_text raises, WebSocketManager.disconnect
Disconnect ==
    /\ connections = "up"
    /\ connections' = "absent"
    /\ UNCHANGED <<tasks, sched, running, sent, cancel_handled, next_call_id, last_batch>>
    /\ UNCHANGED <<v2_vars, fn_vars>>

\* main.py 133-179: handle_create_task with its required fields present
handle_create_task(w, t) ==
    create_process_task(
        Written([w EXCEPT !.tasks = [x \in DOMAIN @ \cup {t} |->
                            IF x = t THEN NewTask(AllowedCommands) ELSE @[x]]],
                t, "task_created"), t)

CreateTask ==
    /\ \E t \in TaskIds \ DOMAIN tasks : Apply(handle_create_task(World, t))
    /\ UNCHANGED <<connections, cancel_handled, last_batch>>
    /\ UNCHANGED <<v2_vars, fn_vars>>

\* an id the server never minted
UnknownCallId == next_call_id + 1

CommandResult ==
    /\ \E m \in CommandResults(1..UnknownCallId) :
        /\ m.task_id \in DOMAIN tasks
        /\ tasks[m.task_id].consecutive_errors < MaxErrorCount
        /\ Apply(handle_command_result(World, m))
    /\ UNCHANGED <<connections, cancel_handled, last_batch>>
    /\ UNCHANGED <<v2_vars, fn_vars>>

\* Every call id minted so far went out in a command_call or user_question
\* frame that was written.
AllCallsSent ==
    next_call_id = sent["t1"]["command_call"] + sent["t1"]["user_question"]

\* websocket_endpoint -> handle_command_result, for a client that answers only
\* call ids it was sent: no id the server never minted, and no answer once a
\* call frame has failed to go out.
AnswerSentCall ==
    /\ AllCallsSent
    /\ \E m \in CommandResults(1..next_call_id) :
        /\ m.task_id \in DOMAIN tasks
        /\ tasks[m.task_id].consecutive_errors < MaxErrorCount
        /\ Apply(handle_command_result(World, m))
    /\ UNCHANGED <<connections, cancel_handled, last_batch>>
    /\ UNCHANGED <<v2_vars, fn_vars>>

\* main.py 107-116: the cancel_task branch of the reader loop
handle_cancel_task(w, t) ==
    Written(update_status(w, t, CANCELLED), t, "task_update")

CancelTask ==
    /\ \E t \in DOMAIN tasks :
        /\ sent[t]["task_update"] < MaxCancels
        /\ Apply(handle_cancel_task(World, t))
        /\ cancel_handled' = [cancel_handled EXCEPT ![t] = TRUE]
    /\ UNCHANGED <<connections, last_batch>>
    /\ UNCHANGED <<v2_vars, fn_vars>>

\* assistant responses in the history of the task
Responded(t) ==
    Cardinality({i \in 1..Len(tasks[t].history) : tasks[t].history[i] = "assistant"})

ProcessTaskStart ==
    /\ \E t \in DOMAIN tasks :
        /\ sched[t] > 0
        /\ Responded(t) < MaxResponses
        /\ Apply(process_task_start(World, t))
    /\ UNCHANGED <<connections, cancel_handled, last_batch>>
    /\ UNCHANGED <<v2_vars, fn_vars>>

ProcessTaskResume ==
    /\ \E t \in DOMAIN tasks :
        /\ running[t] > 0
        /\ \E resp \in Responses : Apply(process_task_resume(World, t, resp))
    /\ UNCHANGED <<connections, cancel_handled, last_batch>>
    /\ UNCHANGED <<v2_vars, fn_vars>>

AFInit ==
    /\ tasks = [t \in {} |-> NewTask(AllowedCommands)]
    /\ connections = "absent"
    /\ sched = [t \in TaskIds |-> 0]
    /\ running = [t \in TaskIds |-> 0]
    /\ sent = [t \in TaskIds |-> [f \in FrameTypes |-> 0]]
    /\ cancel_handled = [t \in TaskIds |-> FALSE]
    /\ next_call_id = 0
    /\ last_batch = [t \in TaskIds |-> << >>]

Next ==
    \/ Connect
    \/ Disconnect
    \/ CreateTask
    \/ CommandResult
    \/ CancelTask
    \/ ProcessTaskStart
    \/ ProcessTaskResume

(***************************************************************************)
(* One round of tool calls.  SpecRound has every action of Spec, with the  *)
(* model calls of a task cut down to a first response that may hold a      *)
(* batch of up to MaxRoundBatch tool calls and later responses that hold   *)
(* none, so that longer batches stay within reach.  SpecBatch follows one  *)
(* client that stays connected and does not cancel, and keeps the batch of *)
(* the first response in last_batch.                                       *)
(***************************************************************************)
RoundStart ==
    /\ \E t \in DOMAIN tasks :
        /\ sched[t] > 0
        /\ Responded(t) < MaxRounds
        /\ Apply(process_task_start(World, t))
    /\ UNCHANGED <<connections, cancel_handled, last_batch>>
    /\ UNCHANGED <<v2_vars, fn_vars>>

RoundResume ==
    /\ \E t \in DOMAIN tasks :
        /\ running[t] > 0
        /\ \E resp \in ResponsesWith(IF Responded(t) = 0
                                     THEN BatchesUpTo(MaxRoundBatch) ELSE {}) :
            Apply(process_task_resume(World, t, resp))
    /\ UNCHANGED <<connections, cancel_handled, last_batch>>
    /\ UNCHANGED <<v2_vars, fn_vars>>

BatchResume ==
    /\ \E t \in DOMAIN tasks :
        /\ running[t] > 0
        /\ \E resp \in ResponsesWith(IF Responded(t) = 0
                                     THEN BatchesUpTo(MaxRoundBatch) ELSE {}) :
            /\ Apply(process_task_resume(World, t, resp))
            /\ last_batch' = IF resp.kind = "tools"
                             THEN [last_batch EXCEPT ![t] = resp.tool_calls]
                             ELSE last_batch
    /\ UNCHANGED <<connections, cancel_handled>>
    /\ UNCHANGED <<v2_vars, fn_vars>>

NextRound ==
    \/ Connect
    \/ Disconnect
    \/ CreateTask
    \/ CommandResult
    \/ CancelTask
    \/ RoundStart
    \/ RoundResume

NextBatch ==
    \/ Connect
    \/ CreateTask
    \/ CommandResult
    \/ RoundStart
    \/ BatchResume

(***************************************************************************)
(* CCLLMV2 orchestrator.                                                   *)
(*                                                                         *)
(* The suspension points kept are the model calls of a loop step, taken    *)
(* together, and the wait on the future in call_cc_command.  The timeout   *)
(* of asyncio.wait_for takes two steps: the timer cancels the future, and  *)
(* the coroutine runs again later.  Frames come in from the client the     *)
(* task is bound to, on a connection that is registered.                   *)
(***************************************************************************)
\* execute_task_with_two_agents(max_steps = 20)
max_steps == 20

V2Tasks == {"t1"}

\* call ids: uuid4 never repeats; the id of the call made in loop step k is k + 1
V2CallIds == 1..max_steps

NewCoro ==
    [ pc |-> "idle",        \* idle, created, model, call, done
      step |-> 0,           \* index of the loop iteration
      call_id |-> None,     \* id of the call the coroutine is blocked in
      future |-> "none",    \* none, pending, result, exception, cancelled
      tools_run |-> 0,      \* tool functions invoked so far
      tool_results |-> 0,   \* len(memory.tool_results)
      outcome |-> "none" ]  \* what the latest tool left in memory.tool_results

Key(t, call_id) == <<t, call_id>>

\* orchestrator.py 252-263: the except branch of process_task
v2_task_failed(v, t, error) ==
    [v EXCEPT !.coro[t].pc = "done",
              !.terminal_frames[t] = Append(@, [type |-> "task_failed", error |-> error]),
              !.active_tasks[t] = "failed"]

\* orchestrator.py 237-250
v2_task_completed(v, t) ==
    [v EXCEPT !.coro[t].pc = "done",
              !.terminal_frames[t] = Append(@, [type |-> "task_completed", error |-> "None"]),
              !.active_tasks[t] = "completed"]

\* a loop that runs one iteration too many
LoopRunsOnceMore(step) == step <= max_steps

\* cc_agent_v2.py 1566: for step in range(max_steps)
LoopContinues(step) == step < max_steps

\* cc_agent_v2.py 1566, 1923: the next iteration, or the raise after the loop
next_iteration(v, t) ==
    LET n == v.coro[t].step + 1 IN
    IF LoopContinues(n)
    THEN [v EXCEPT !.coro[t].step = n, !.coro[t].pc = "model",
                   !.coro[t].call_id = None, !.coro[t].future = "none"]
    ELSE v2_task_failed([v EXCEPT !.coro[t].step = n, !.coro[t].call_id = None,
                                  !.coro[t].future = "none"],
                        t, "exceeded maximum steps")

\* a loop that lets the error of a tool end the task
tool_error_ends_task(v, t, outcome) ==
    IF outcome = "result"
    THEN next_iteration([v EXCEPT !.coro[t].outcome = outcome,
                                  !.coro[t].tool_results = @ + 1], t)
    ELSE v2_task_failed([v EXCEPT !.coro[t].outcome = outcome], t, outcome)

\* cc_agent_v2.py 1896-1920: the tool returned or raised; its entry in tool_results
tool_finished(v, t, outcome) ==
    next_iteration([v EXCEPT !.coro[t].outcome = outcome,
                             !.coro[t].tool_results = @ + 1], t)

\* WebSocketManager.send_to_client: written iff the client is registered
v2_send_to_client == v2_connections = "up"

\* a call that leaves the future registered when the send fails
call_cc_command_keeps_future(v, t) ==
    LET id == v.coro[t].step + 1
        v1 == [v EXCEPT !.pending_results = @ \cup {Key(t, id)}]
    IN  IF v2_send_to_client
        THEN [v1 EXCEPT !.coro[t].pc = "call", !.coro[t].call_id = id,
                        !.coro[t].future = "pending"]
        ELSE tool_finished(v1, t, "error:send")

\* ws_tools.py 44-64: register the future, send; a failed send removes it and raises
call_cc_command(v, t) ==
    LET id == v.coro[t].step + 1
        v1 == [v EXCEPT !.pending_results = @ \cup {Key(t, id)}]
    IN  IF v2_send_to_client
        THEN [v1 EXCEPT !.coro[t].pc = "call", !.coro[t].call_id = id,
                        !.coro[t].future = "pending"]
        ELSE tool_finished([v1 EXCEPT !.pending_results = @ \ {Key(t, id)}],
                           t, "error:send")

\* a timeout that leaves the waiter registered
call_timed_out_keeps_waiter(pr, key) == pr

\* ws_tools.py 71-75: the except branch of the wait
call_timed_out(pr, key) == pr \ {key}

\* ws_tools.py 66-75: the coroutine runs again once its future is done
call_resume(v, t) ==
    LET c == v.coro[t] IN
    IF c.future = "result" THEN tool_finished(v, t, "result")
    ELSE IF c.future = "exception" THEN tool_finished(v, t, "error:remote")
    ELSE tool_finished(
             [v EXCEPT !.pending_results = call_timed_out(@, Key(t, c.call_id))],
             t, "error:timeout")

\* a wait without a timeout
TimerNeverFires(c) == FALSE

\* asyncio.wait_for: a pending future can time out
TimerCanFire(c) == c.pc = "call" /\ c.future = "pending"

(***************************************************************************)
(* One loop step up to the tool (cc_agent_v2.py 1566-1897).  The model     *)
(* calls of the step are awaited one after the other and touch nothing     *)
(* shared; what comes of them is one of:                                   *)
(*   raise   a model call raised                                           *)
(*   bounce  no tool is run and a failed entry goes to tool_results        *)
(*           (planner format error, validation or compatibility failure,   *)
(*           bounced final, duplicate call, unknown tool)                  *)
(*   final   a final response is accepted                                  *)
(*   local_ok, local_err   a local cache tool ran                          *)
(*   remote  a cc_* tool ran and called call_cc_command                    *)
(***************************************************************************)
StepOutcomes == {"raise", "bounce", "final", "local_ok", "local_err", "remote"}

run_tool(v, t) == [v EXCEPT !.coro[t].tools_run = @ + 1]

loop_step(v, t, out) ==
    IF out = "raise" THEN v2_task_failed(v, t, "exception")
    ELSE IF out = "bounce" THEN tool_finished(v, t, "error:bounce")
    ELSE IF out = "final" THEN v2_task_completed(v, t)
    ELSE IF out = "local_ok" THEN tool_finished(run_tool(v, t), t, "result")
    ELSE IF out = "local_err" THEN tool_finished(run_tool(v, t), t, "error:local")
    ELSE call_cc_command(run_tool(v, t), t)

\* orchestrator.py 207-235: up to the first model call
v2_process_task_start(v, t) ==
    LET v1 == [v EXCEPT !.active_tasks[t] = "running"] IN
    IF LoopContinues(0)
    THEN [v1 EXCEPT !.coro[t].pc = "model"]
    ELSE v2_task_failed(v1, t, "exceeded maximum steps")

V2World == [ pending_results |-> pending_results, coro |-> coro,
             active_tasks |-> active_tasks, terminal_frames |-> terminal_frames ]

V2Apply(v) ==
    /\ pending_results' = v.pending_results
    /\ coro' = v.coro
    /\ active_tasks' = v.active_tasks
    /\ terminal_frames' = v.terminal_frames

\* orchestrator.py 90: ws_manager.connect
V2Connect ==
    /\ v2_connections = "absent"
    /\ v2_connections' = "up"
    /\ reader_error' = FALSE
    /\ UNCHANGED <<active_tasks, pending_results, coro, terminal_frames>>
    /\ UNCHANGED <<af_vars, fn_vars>>

\* orchestrator.py 114-116: WebSocketDisconnect ends the reader loop
V2Disconnect ==
    /\ v2_connections = "up"
    /\ v2_connections' = "absent"
    /\ UNCHANGED reader_error
    /\ UNCHANGED <<active_tasks, pending_results, coro, terminal_frames>>
    /\ UNCHANGED <<af_vars, fn_vars>>

\* orchestrator.py 127-152: handle_create_task
V2CreateTask ==
    /\ v2_connections = "up"
    /\ \E t \in V2Tasks :
        /\ coro[t].pc = "idle"
        /\ coro' = [coro EXCEPT ![t].pc = "created"]
    /\ UNCHANGED <<v2_connections, reader_error, active_tasks, pending_results, terminal_frames>>
    /\ UNCHANGED <<af_vars, fn_vars>>

V2ProcessTaskStart ==
    /\ \E t \in V2Tasks :
        /\ coro[t].pc = "created"
        /\ V2Apply(v2_process_task_start(V2World, t))
    /\ UNCHANGED <<v2_connections, reader_error>>
    /\ UNCHANGED <<af_vars, fn_vars>>

V2LoopStep ==
    /\ \E t \in V2Tasks :
        /\ coro[t].pc = "model"
        /\ \E out \in StepOutcomes : V2Apply(loop_step(V2World, t, out))
    /\ UNCHANGED <<v2_connections, reader_error>>
    /\ UNCHANGED <<af_vars, fn_vars>>

\* orchestrator.py 162-190: handle_command_result.  set_result and
\* set_exception raise InvalidStateError on a future that is already
\* cancelled; the reader loop (117-119) then deregisters the client.
V2CommandResult ==
    /\ v2_connections = "up"
    /\ \E t \in V2Tasks, id \in V2CallIds, ok \in BOOLEAN :
        IF Key(t, id) \notin pending_results
        THEN UNCHANGED <<v2_connections, reader_error, pending_results, coro>>
        ELSE IF coro[t].future = "pending"
        THEN /\ coro' = [coro EXCEPT ![t].future =
                            IF ok THEN "result" ELSE "exception"]
             /\ pending_results' = pending_results \ {Key(t, id)}
             /\ UNCHANGED <<v2_connections, reader_error>>
        ELSE /\ v2_connections' = "absent"
             /\ reader_error' = TRUE
             /\ UNCHANGED <<pending_results, coro>>
    /\ UNCHANGED <<active_tasks, terminal_frames>>
    /\ UNCHANGED <<af_vars, fn_vars>>

\* asyncio.wait_for(future, timeout): the timeout cancels the future
V2TimeoutFires ==
    /\ \E t \in V2Tasks :
        /\ TimerCanFire(coro[t])
        /\ coro' = [coro EXCEPT ![t].future = "cancelled"]
    /\ UNCHANGED <<v2_connections, reader_error, active_tasks, pending_results, terminal_frames>>
    /\ UNCHANGED <<af_vars, fn_vars>>

V2CallResume ==
    /\ \E t \in V2Tasks :
        /\ coro[t].pc = "call"
        /\ coro[t].future \in {"result", "exception", "cancelled"}
        /\ V2Apply(call_resume(V2World, t))
    /\ UNCHANGED <<v2_connections, reader_error>>
    /\ UNCHANGED <<af_vars, fn_vars>>

V2Init ==
    /\ v2_connections = "absent"
    /\ reader_error = FALSE
    /\ active_tasks = [t \in V2Tasks |-> "none"]
    /\ pending_results = {}
    /\ coro = [t \in V2Tasks |-> NewCoro]
    /\ terminal_frames = [t \in V2Tasks |-> << >>]

NextV2 ==
    \/ V2Connect
    \/ V2Disconnect
    \/ V2CreateTask
    \/ V2ProcessTaskStart
    \/ V2LoopStep
    \/ V2CommandResult
    \/ V2TimeoutFires
    \/ V2CallResume

(***************************************************************************)
(* Text functions of cc_agent_v2.py.  A string is a sequence of            *)
(* characters; the alphabet keeps one character of each class the          *)
(* functions tell apart.                                                   *)
(***************************************************************************)
\* the function has not returned
NoOutput == [returned |-> FALSE]

\* characters are named: a backtick, a newline, a space; "a" is a letter
BT == "backtick"
NL == "newline"
SP == "space"

StringsUpTo(chars, n) == UNION { [1..k -> chars] : k \in 0..n }

\* str.strip()
RECURSIVE Strip(_)
Strip(s) ==
    IF s # << >> /\ Head(s) \in {NL, SP} THEN Strip(Tail(s))
    ELSE IF s # << >> /\ s[Len(s)] \in {NL, SP} THEN Strip(SubSeq(s, 1, Len(s) - 1))
    ELSE s

Fence == <<BT, BT, BT>>

\* re.match of three backticks, an optional word, a newline, the group
\* (shortest, any characters), a newline, three backticks, the end: the
\* group, or no match.  s is stripped, so $ is the end of s.
FencedBody(s) ==
    LET \* the end of the run of word characters that starts at position i
        RECURSIVE WordRunEnd(_)
        WordRunEnd(i) == IF i <= Len(s) /\ s[i] = "a" THEN WordRunEnd(i + 1) ELSE i
        p == WordRunEnd(4)         \* where the newline of the first line must be
        q == Len(s) - 3            \* where the newline of the last line must be
    IN  IF /\ Len(s) >= 8
           /\ SubSeq(s, 1, 3) = Fence
           /\ p < q
           /\ s[p] = NL
           /\ s[q] = NL
           /\ SubSeq(s, q + 1, q + 3) = Fence
        THEN [matched |-> TRUE, body |-> SubSeq(s, p + 1, q - 1)]
        ELSE [matched |-> FALSE, body |-> << >>]

RECURSIVE sanitize_all_layers(_)

\* a sanitizer that goes on unwrapping what it unwrapped
sanitize_all_layers(s) ==
    LET stripped == Strip(s)
        m == FencedBody(stripped)
    IN  IF m.matched THEN sanitize_all_layers(m.body)
        ELSE IF /\ Len(stripped) >= 2
                /\ stripped[1] = BT
                /\ stripped[Len(stripped)] = BT
        THEN sanitize_all_layers(Strip(SubSeq(stripped, 2, Len(stripped) - 1)))
        ELSE s

\* a sanitizer that hands back the stripped text when there is no wrapper
sanitize_returns_stripped(s) ==
    LET stripped == Strip(s)
        m == FencedBody(stripped)
    IN  IF m.matched THEN m.body
        ELSE IF /\ Len(stripped) >= 2
                /\ stripped[1] = BT
                /\ stripped[Len(stripped)] = BT
        THEN Strip(SubSeq(stripped, 2, Len(stripped) - 1))
        ELSE stripped

\* cc_agent_v2.py 1280-1300
sanitize_code_content(s) ==
    LET stripped == Strip(s)
        m == FencedBody(stripped)
    IN  IF m.matched THEN m.body
        ELSE IF /\ Len(stripped) >= 2
                /\ stripped[1] = BT
                /\ stripped[Len(stripped)] = BT
        THEN Strip(SubSeq(stripped, 2, Len(stripped) - 1))
        ELSE s

\* content handed to cc_write: every short string, and the short strings
\* inside one or two fenced blocks or a block with a language word
SanitizeInputs ==
    LET Fenced(s) == Fence \o <<NL>> \o s \o <<NL>> \o Fence
        short == StringsUpTo({BT, NL, SP, "a"}, MaxContentLen)
        core == StringsUpTo({BT, SP, "a"}, MaxFencedLen)
        FencedLang(s) == Fence \o <<"a", NL>> \o s \o <<NL>> \o Fence
    IN  short \cup {Fenced(s) : s \in core} \cup {Fenced(Fenced(s)) : s \in core}
              \cup {FencedLang(s) : s \in core}

\* cc_agent_v2.py 1860-1866: the content of a cc_write goes through the
\* sanitizer; applied again to what it gave
Sanitize ==
    /\ runs < MaxSanitizeRuns
    /\ text' = sanitize_code_content(text)
    /\ runs' = runs + 1
    /\ UNCHANGED <<af_vars, v2_vars, fn_result, ws_registry, ws_last, sa_vars>>

\* ---- extract_last_json_object, cc_agent_v2.py 1415-1447 ----
LB == "lbrace"
RB == "rbrace"

\* return None / return json_str
ReturnNone == [returned |-> TRUE, some |-> FALSE, value |-> << >>]
Return(v) == [returned |-> TRUE, some |-> TRUE, value |-> v]

\* text.rfind(ch): the last position of ch, 0 when there is none
RECURSIVE rfind(_, _)
rfind(s, ch) ==
    IF s = << >> THEN 0
    ELSE IF s[Len(s)] = ch THEN Len(s)
    ELSE rfind(SubSeq(s, 1, Len(s) - 1), ch)

\* a scan that forgets the closing braces it has passed
brace_count_flat(count, ch) ==
    IF ch = RB THEN 1 ELSE IF ch = LB THEN count - 1 ELSE count

\* 1437-1440: the count after the character ch
brace_count_after(count, ch) ==
    IF ch = RB THEN count + 1 ELSE IF ch = LB THEN count - 1 ELSE count

extract_last_json_object(s) ==
    LET last_close == rfind(s, RB)
        \* 1436-1445: the loop from position i down to 1
        RECURSIVE scan_back(_, _)
        scan_back(i, brace_count) ==
            IF i < 1 THEN ReturnNone
            ELSE LET count == brace_count_after(brace_count, s[i])
                 IN  IF s[i] = LB /\ count = 0
                     THEN Return(Strip(SubSeq(s, i, last_close)))
                     ELSE scan_back(i - 1, count)
    IN  IF s = << >> \/ last_close = 0 THEN ReturnNone
        ELSE scan_back(last_close, 0)

Extract ==
    /\ runs = 0
    /\ fn_result' = extract_last_json_object(text)
    /\ runs' = 1
    /\ UNCHANGED <<af_vars, v2_vars, text, ws_registry, ws_last, sa_vars>>

\* ---- validate_executor_text, cc_agent_v2.py 1450-1471 ----
\* The executor's text is a sequence of tokens: prose ("a"), braces, and the
\* members of a JSON object, one token for a key with its value
\* ("parameters" is followed by the object that is its value).  A member is
\* <<token, key, value>>.
Members ==
    { <<"kind_tool", "kind", "tool">>,
      <<"kind_final", "kind", "final">>,
      <<"explanation_text", "explanation", "text">>,
      <<"explanation_empty", "explanation", "">>,
      <<"tool_cc_read", "tool", "cc_read">>,
      <<"tool_cc_list", "tool", "cc_list">>,
      <<"tool_cc_write", "tool", "cc_write">>,
      <<"tool_rm", "tool", "rm">>,
      <<"success_true", "success", "true">>,
      <<"message_text", "message", "text">>,
      <<"path_text", "path", "text">>,
      <<"content_text", "content", "text">>,
      <<"extra_param_text", "extra_param", "text">> }

\* 142-213: the parameter models, extra = "forbid"; required are the
\* fields declared with "...", optional the ones with a default
RequiredParams ==
    [cc_read |-> {"path"}, cc_list |-> {}, cc_tree |-> {},
     cc_write |-> {"path", "content"}, cc_write_and_run |-> {"path", "content"},
     cc_run_program |-> {"path"}, cc_shell |-> {"command"}, cc_delete |-> {"path"},
     local_read |-> {"path"}, local_write |-> {"path", "content"},
     local_patch |-> {"path", "old_text", "new_text"}]

OptionalParams ==
    [cc_read |-> {}, cc_list |-> {"path"}, cc_tree |-> {"path", "max_depth"},
     cc_write |-> {}, cc_write_and_run |-> {"args"},
     cc_run_program |-> {"args"}, cc_shell |-> {}, cc_delete |-> {},
     local_read |-> {}, local_write |-> {}, local_patch |-> {}]

\* 321-325: the tool calls of the union
ToolNames == DOMAIN RequiredParams

\* json.loads of an object: the value of each key (the last one wins), and
\* the keys of "parameters"; valid is false for what is not an object of
\* members
parse_json(s) ==
    LET KeyOf(tok) == (CHOOSE m \in Members : m[1] = tok)[2]
        ValueOf(tok) == (CHOOSE m \in Members : m[1] = tok)[3]
        IsMember(tok) == \E m \in Members : m[1] = tok
        empty == [valid |-> TRUE, kind |-> "absent", explanation |-> "absent",
                  tool |-> "absent", success |-> "absent", message |-> "absent",
                  path |-> "absent", content |-> "absent", extra_param |-> "absent",
                  has_parameters |-> FALSE, parameters |-> {}]
        invalid == [empty EXCEPT !.valid = FALSE]
        \* the keys of the flat object s[i..] up to its closing brace, and where it ends
        RECURSIVE parse_flat(_, _)
        parse_flat(i, keys) ==
            IF i > Len(s) THEN [valid |-> FALSE, keys |-> {}, next |-> i]
            ELSE IF s[i] = RB THEN [valid |-> TRUE, keys |-> keys, next |-> i + 1]
            ELSE IF IsMember(s[i]) THEN parse_flat(i + 1, keys \cup {KeyOf(s[i])})
            ELSE [valid |-> FALSE, keys |-> {}, next |-> i]
        \* the members s[i..Len(s)-1] of the outer object
        RECURSIVE parse_members(_, _)
        parse_members(i, obj) ==
            IF i >= Len(s) THEN (IF i = Len(s) THEN obj ELSE invalid)
            ELSE IF IsMember(s[i])
            THEN parse_members(i + 1, [obj EXCEPT ![KeyOf(s[i])] = ValueOf(s[i])])
            ELSE IF s[i] = "parameters" /\ i + 1 < Len(s) /\ s[i + 1] = LB
            THEN LET inner == parse_flat(i + 2, {})
                 IN  IF inner.valid
                     THEN parse_members(inner.next,
                             [obj EXCEPT !.has_parameters = TRUE, !.parameters = inner.keys])
                     ELSE invalid
            ELSE invalid
    IN  IF Len(s) >= 2 /\ s[1] = LB /\ s[Len(s)] = RB
        THEN parse_members(2, empty)
        ELSE invalid

\* 225-310: one tool call model; kind and tool are Literal fields with a
\* default, explanation (1..200 characters) and parameters are required,
\* keys the model does not declare are ignored outside parameters and
\* forbidden inside
ValidatesAsCall(obj, name) ==
    /\ obj.kind \in {"absent", "tool"}
    /\ obj.explanation \notin {"absent", ""}
    /\ obj.tool \in {"absent", name}
    /\ obj.has_parameters
    /\ RequiredParams[name] \subseteq obj.parameters
    /\ obj.parameters \subseteq RequiredParams[name] \cup OptionalParams[name]

\* 313-319: FinalResult; details has a default
ValidatesAsFinal(obj) ==
    /\ obj.kind \in {"absent", "final"}
    /\ obj.explanation \notin {"absent", ""}
    /\ obj.success # "absent"
    /\ obj.message # "absent"

\* 330-333: the members of the union that accept the object
UnionMatches(obj) ==
    {name \in ToolNames : ValidatesAsCall(obj, name)}
        \cup (IF ValidatesAsFinal(obj) THEN {"final"} ELSE {})

\* raise error / return the validated member
Raised(error) == [returned |-> TRUE, raised |-> error, response |-> "None"]
Response(member) == [returned |-> TRUE, raised |-> "None", response |-> member]

\* 1464-1471: what validate_executor_text can give; the union hands back one
\* of the members that accept the object
validate_executor_text(s) ==
    LET json_str == extract_last_json_object(s)
    IN  IF ~json_str.some \/ json_str.value = << >> THEN {Raised("ValueError")}
        ELSE LET obj == parse_json(json_str.value)
             IN  IF ~obj.valid \/ UnionMatches(obj) = {} THEN {Raised("ValidationError")}
                 ELSE {Response(m) : m \in UnionMatches(obj)}

\* executor output: prose, then an object with the chosen members, whole or
\* cut short, then maybe more prose or a brace; or prose alone
ExecutorTexts ==
    LET Opt(tok) == IF tok = "absent" THEN << >> ELSE <<tok>>
        ParamTokens(keys) ==
            (IF "path" \in keys THEN <<"path_text">> ELSE << >>)
                \o (IF "content" \in keys THEN <<"content_text">> ELSE << >>)
                \o (IF "extra_param" \in keys THEN <<"extra_param_text">> ELSE << >>)
        objects ==
            { <<LB>> \o Opt(kind) \o Opt(explanation) \o Opt(tool)
                \o (IF params.present
                    THEN <<"parameters", LB>> \o ParamTokens(params.keys) \o <<RB>>
                    ELSE << >>)
                \o Opt(success) \o Opt(message) \o <<RB>> :
              kind \in {"absent", "kind_tool", "kind_final"},
              explanation \in {"absent", "explanation_text", "explanation_empty"},
              tool \in {"absent", "tool_cc_read", "tool_cc_list", "tool_cc_write", "tool_rm"},
              params \in [present : {TRUE}, keys : SUBSET {"path", "content", "extra_param"}]
                            \cup {[present |-> FALSE, keys |-> {}]},
              success \in {"absent", "success_true"},
              message \in {"absent", "message_text"} }
        prose == StringsUpTo({"a"}, MaxProse)
    IN  prose
            \cup {pre \o obj \o post :
                    pre \in prose, obj \in objects, post \in prose \cup {<<RB>>}}
            \cup {pre \o SubSeq(obj, 1, Len(obj) - 1) : pre \in prose, obj \in objects}

Validate ==
    /\ runs = 0
    /\ fn_result' \in validate_executor_text(text)
    /\ runs' = 1
    /\ UNCHANGED <<af_vars, v2_vars, text, ws_registry, ws_last, sa_vars>>

(***************************************************************************)
(* WebSocketManager (websocket_manager.py) on its own, with several        *)
(* clients.  A send has the client id, whether json.dumps accepts the      *)
(* message and whether websocket.send_text goes through.                   *)
(***************************************************************************)
WSClients == {"c1", "c2", "c3"}

NoSend == [called |-> FALSE]

\* a send_to_client that forgets a client whose write failed
send_to_client_dropping(registry, client_id, serialisable, write_ok) ==
    IF client_id \notin registry
    THEN [registry |-> registry, raised |-> FALSE, value |-> FALSE, written |-> FALSE]
    ELSE IF serialisable /\ write_ok
    THEN [registry |-> registry, raised |-> FALSE, value |-> TRUE, written |-> TRUE]
    ELSE [registry |-> registry \ {client_id}, raised |-> FALSE, value |-> FALSE,
          written |-> FALSE]

\* 43-73: the registry after the call, whether an exception left the call,
\* the value returned and whether the frame was written
WebSocketManager_send_to_client(registry, client_id, serialisable, write_ok) ==
    IF client_id \notin registry
    THEN [registry |-> registry, raised |-> FALSE, value |-> FALSE, written |-> FALSE]
    ELSE IF serialisable /\ write_ok                     \* the try block ran through
    THEN [registry |-> registry, raised |-> FALSE, value |-> TRUE, written |-> TRUE]
    ELSE \* json.dumps or send_text raised: except Exception
         [registry |-> registry, raised |-> FALSE, value |-> FALSE, written |-> FALSE]

\* 20-30
WSConnect ==
    /\ \E c \in WSClients : ws_registry' = ws_registry \cup {c}
    /\ UNCHANGED <<af_vars, v2_vars, text, runs, fn_result, ws_last, sa_vars>>

\* 32-41
WSDisconnect ==
    /\ \E c \in WSClients : ws_registry' = ws_registry \ {c}
    /\ UNCHANGED <<af_vars, v2_vars, text, runs, fn_result, ws_last, sa_vars>>

WSSend ==
    /\ \E c \in WSClients, serialisable \in BOOLEAN, write_ok \in BOOLEAN :
        LET r == WebSocketManager_send_to_client(ws_registry, c, serialisable, write_ok)
        IN  /\ ws_registry' = r.registry
            /\ ws_last' = [called |-> TRUE, client_id |-> c,
                           registered |-> c \in ws_registry,
                           serialisable |-> serialisable, write_ok |-> write_ok,
                           raised |-> r.raised, value |-> r.value, written |-> r.written]
    /\ UNCHANGED <<af_vars, v2_vars, text, runs, fn_result, sa_vars>>

(***************************************************************************)
(* execute_task_with_two_agents (cc_agent_v2.py 1527-1923): one run of the *)
(* loop on its own, a step for each await of a model or of a tool.  The    *)
(* record agents holds the loop's locals; the fields that describe one     *)
(* iteration (json_obj, the runs, validation_errors, executor_result,      *)
(* appended, reached_dispatch, tool_called, frames) keep the values of the *)
(* finished iteration until the planner of the next one is called.         *)
(* memory holds the lengths of the three lists of TaskMemory, that of      *)
(* tool_requests counted up to MaxRequests.                                *)
(***************************************************************************)
MAX_DUPLICATE_COUNT == 3

MaxRequests == 2

\* what extract_json_from_text gives of a planner output: no object ("None"),
\* an object without "tool" ("absent"), or the tool the object names
PlannerDirectives == {"None", "absent", "task_complete", "cc_read", "cc_write"}

\* what executor.run followed by validate_executor_text gives: the validation
\* raises, or the response is a final result (bounce: success is False and
\* the message holds "validation") or a tool call with its argument
ExecutorResults ==
    {[kind |-> "raised", tool |-> "None", args |-> << >>, bounce |-> FALSE]}
        \cup {[kind |-> "final", tool |-> "None", args |-> << >>, bounce |-> b] :
                b \in BOOLEAN}
        \cup {[kind |-> "tool", tool |-> n, args |-> c, bounce |-> FALSE] :
                n \in {"cc_read", "cc_write"}, c \in {<<"a">>, <<BT, "a", BT>>}}

\* executor_result = None (1647)
NoResponse == [kind |-> "None", tool |-> "None", args |-> << >>, bounce |-> FALSE]

\* 1557-1566, and the locals of an iteration before anything has run
NewLoop ==
    [step |-> 0, pc |-> "planner", recent_tools |-> << >>,
     json_obj |-> "None", planner_runs |-> 0, executor_runs |-> 0,
     validation_errors |-> 0, executor_result |-> NoResponse, appended |-> << >>,
     reached_dispatch |-> FALSE, tool_called |-> FALSE, frames |-> 0,
     last_call |-> << >>, run_length |-> 0,
     memory |-> [directives |-> 0, tool_requests |-> 0, tool_results |-> 0]]

\* a check that lets every response through
compatibility_unchecked(json_obj, response) == TRUE

\* 1474-1519
check_directive_compatibility(json_obj, response) ==
    IF json_obj \in {"None", "absent"} THEN TRUE
    ELSE IF json_obj = "task_complete" THEN response.kind = "final"
    ELSE IF response.kind = "final" THEN FALSE
    ELSE json_obj = response.tool

\* memory.tool_results.append(entry), then continue or the end of the loop
\* body: the next iteration, or RuntimeError after the last one (1923)
append_result(a, entry) ==
    [a EXCEPT !.appended = Append(@, entry),
              !.memory.tool_results = @ + 1,
              !.step = @ + 1,
              !.pc = IF a.step + 1 < max_steps THEN "planner" ELSE "raised"]

\* a count that never finds the call in the window
duplicate_count_zero(recent, call) == 0

\* 1877-1878
duplicate_count(recent, call) ==
    Cardinality({i \in DOMAIN recent : recent[i] = call})

\* 1802-1806: memory.tool_requests.append of the response that passed the
\* checks; 1825-1893: phase 3 up to the await of the tool function.  The
\* tool names of a validated response are all keys of TOOL_REGISTRY, so the
\* unknown tool branch (1888-1892) is not taken.
handle_result(checked) ==
    LET a == [checked EXCEPT !.memory.tool_requests =
                                IF @ < MaxRequests THEN @ + 1 ELSE @]
        r == a.executor_result IN
    IF r.kind = "final"
    THEN IF r.bounce THEN append_result(a, "VALIDATION_ERROR")
         ELSE [a EXCEPT !.pc = "returned"]
    ELSE LET tool_args == IF r.tool \in {"cc_write", "cc_write_and_run"}
                          THEN sanitize_code_content(r.args) ELSE r.args
             call == <<r.tool, tool_args>>
             appended == Append(a.recent_tools, call)
             recent == IF Len(appended) > MAX_DUPLICATE_COUNT
                       THEN Tail(appended) ELSE appended
             a1 == [a EXCEPT !.recent_tools = recent,
                             !.reached_dispatch = TRUE,
                             !.last_call = call,
                             !.run_length = IF a.last_call # call THEN 1
                                            ELSE IF @ > MAX_DUPLICATE_COUNT THEN @
                                            ELSE @ + 1]
         IN  IF duplicate_count(recent, call) >= MAX_DUPLICATE_COUNT
             THEN append_result(a1, "DUPLICATE_TOOL_CALL_ERROR")
             ELSE [a1 EXCEPT !.pc = "tool"]

\* a retry that is made whatever went before
after_validation_always_retries(a) ==
    IF check_directive_compatibility(a.json_obj, a.executor_result)
    THEN handle_result(a)
    ELSE [a EXCEPT !.validation_errors = @ + 1, !.pc = "executor3"]

\* 1728-1800, the first compatibility check
after_validation(a) ==
    IF check_directive_compatibility(a.json_obj, a.executor_result)
    THEN handle_result(a)
    ELSE IF a.validation_errors = 0
    THEN [a EXCEPT !.validation_errors = 1, !.pc = "executor3"]
    ELSE append_result([a EXCEPT !.validation_errors = @ + 1], "EXECUTOR_MULTI_ERROR")

\* 1568-1642: planner.run and extract_json_from_text, and once more when no
\* JSON was found
PlannerRun ==
    /\ agents.pc \in {"planner", "repair"}
    /\ \E d \in PlannerDirectives :
          LET a0 == IF agents.pc = "repair" THEN agents
                    ELSE [agents EXCEPT !.json_obj = "None", !.planner_runs = 0,
                                        !.executor_runs = 0, !.validation_errors = 0,
                                        !.executor_result = NoResponse, !.appended = << >>,
                                        !.reached_dispatch = FALSE,
                                        !.tool_called = FALSE, !.frames = 0]
              a == [a0 EXCEPT !.planner_runs = @ + 1]
              stored == [a EXCEPT !.memory.directives = @ + 1]
          IN  agents' = IF d # "None" THEN [stored EXCEPT !.json_obj = d, !.pc = "executor1"]
                        ELSE IF agents.pc = "planner" THEN [a EXCEPT !.pc = "repair"]
                        ELSE append_result(stored, "PLANNER_FORMAT_ERROR")
    /\ UNCHANGED <<af_vars, v2_vars, text, runs, fn_result, ws_registry, ws_last,
                   cache_task, endpoints, graph, legacy>>

\* 1651-1800: executor.run and validate_executor_text: attempt 1, attempt 2
\* after a validation error, or the retry after a compatibility error
ExecutorRun ==
    /\ agents.pc \in {"executor1", "executor2", "executor3"}
    /\ \E r \in ExecutorResults :
          LET a == [agents EXCEPT !.executor_runs = @ + 1]
              valid == [a EXCEPT !.executor_result = r]
              failed == [a EXCEPT !.validation_errors = @ + 1]
          IN  agents' =
                IF agents.pc = "executor1"
                THEN IF r.kind = "raised" THEN [failed EXCEPT !.pc = "executor2"]
                     ELSE after_validation(valid)
                ELSE IF agents.pc = "executor2"
                THEN IF r.kind = "raised"
                     THEN append_result(failed, "EXECUTOR_VALIDATION_ERROR")
                     ELSE after_validation(valid)
                ELSE IF r.kind = "raised" THEN append_result(failed, "EXECUTOR_ERROR")
                ELSE IF check_directive_compatibility(a.json_obj, r)
                THEN handle_result(valid)
                ELSE append_result([valid EXCEPT !.validation_errors = @ + 1],
                                   "EXECUTOR_COMPATIBILITY_ERROR")
    /\ UNCHANGED <<af_vars, v2_vars, text, runs, fn_result, ws_registry, ws_last,
                   cache_task, endpoints, graph, legacy>>

\* 1894-1920: await tool_func(deps, **tool_args); the tool sends its
\* command_call frame unless the send fails, and returns or raises
ToolRun ==
    /\ agents.pc = "tool"
    /\ \E out \in {"ok", "error", "send_failed"} :
          agents' = append_result([agents EXCEPT !.tool_called = TRUE,
                                                 !.frames = IF out = "send_failed"
                                                            THEN 0 ELSE 1],
                                  IF out = "ok" THEN "ok" ELSE "tool_error")
    /\ UNCHANGED <<af_vars, v2_vars, text, runs, fn_result, ws_registry, ws_last,
                   cache_task, endpoints, graph, legacy>>

(***************************************************************************)
(* execute_task_with_agent (cc_agent_v2.py 1931-2103): one run of the      *)
(* legacy loop, a step for each await of the model or of a tool.  event is *)
(* the tag of the last entry added to the transcript; untested is the set  *)
(* of paths that were written, or written and run with a failure, and have *)
(* not since been run with success nor been followed by a cc_write_and_run *)
(* that reported success.                                                  *)
(***************************************************************************)
LegacyPaths == {"/a.lua", "/b.lua"}

\* what get_parsed gives of a model response: a final result, a kind that is
\* neither final nor tool, a tool response without tool_call, or a tool call
LegacyResponses ==
    {[kind |-> k, tool |-> "None", path |-> "None"] : k \in {"final", "other", "tool"}}
        \cup [kind : {"tool"},
              tool : {"cc_write", "cc_write_and_run", "cc_run_program", "cc_read", "rm"},
              path : LegacyPaths]

\* 1943-1949
NewLegacyLoop ==
    [step |-> 0, pc |-> "agent", last_written_file |-> "None",
     call |-> [kind |-> "None", tool |-> "None", path |-> "None"],
     event |-> "None", untested |-> {}]

\* 2008, 2035, 2048 and 2103: continue or the end of the loop body, with the tag of the
\* transcript entry that was added; RuntimeError after the last iteration
legacy_continue(l, tag) ==
    [l EXCEPT !.event = tag,
              !.step = @ + 1,
              !.pc = IF l.step + 1 < max_steps THEN "agent" ELSE "raised"]

\* 2061-2095: last_written_file after a tool returned tool_result; failed
\* says that tool_result.lower() holds "failed" or "error:"
track_written_file(last_written_file, call, failed) ==
    IF call.tool = "cc_write" THEN call.path
    ELSE IF call.tool = "cc_write_and_run"
    THEN IF failed THEN call.path ELSE "None"
    ELSE IF call.tool = "cc_run_program"
    THEN IF last_written_file = call.path /\ ~failed THEN "None" ELSE last_written_file
    ELSE last_written_file

\* 1976-2048: agent.run, then the final result or the checks of a tool call
LegacyAgentRun ==
    /\ legacy.pc = "agent"
    /\ \E response \in LegacyResponses :
          legacy' =
            IF response.kind = "final"
            THEN IF legacy.last_written_file \notin {"None", ""}
                 THEN legacy_continue(legacy, "ENFORCEMENT")
                 ELSE [legacy EXCEPT !.event = "FINAL", !.pc = "returned"]
            ELSE IF response.kind # "tool"
            THEN [legacy EXCEPT !.event = "ASSISTANT", !.pc = "raised"]
            ELSE IF response.tool = "None"
            THEN legacy_continue(legacy, "ENFORCEMENT")
            ELSE IF response.tool = "rm"              \* not a key of TOOL_REGISTRY
            THEN legacy_continue(legacy, "TOOL_ERROR")
            ELSE [legacy EXCEPT !.event = "TOOL", !.call = response, !.pc = "tool"]
    /\ UNCHANGED <<af_vars, v2_vars, text, runs, fn_result, ws_registry, ws_last, agents,
                   cache_task, endpoints, graph>>

\* 2052-2101: await tool_func(deps, **tool_args): the tool raises, or it
\* returns a text that reports a failure or does not
LegacyToolRun ==
    /\ legacy.pc = "tool"
    /\ \E outcome \in {"ok", "failed", "raised"} :
          LET call == legacy.call
              failed == outcome = "failed"
              untested ==
                IF call.tool = "cc_write" \/ (call.tool = "cc_write_and_run" /\ failed)
                THEN legacy.untested \cup {call.path}
                ELSE IF call.tool = "cc_write_and_run" THEN {}
                ELSE IF call.tool = "cc_run_program" /\ ~failed
                THEN legacy.untested \ {call.path}
                ELSE legacy.untested
          IN  legacy' =
                IF outcome = "raised" THEN legacy_continue(legacy, "TOOL_ERROR")
                ELSE legacy_continue(
                        [legacy EXCEPT !.last_written_file =
                                          track_written_file(@, call, failed),
                                       !.untested = untested],
                        IF call.tool = "cc_read" THEN "TOOL_RESULT" ELSE "STATE_UPDATE")
    /\ UNCHANGED <<af_vars, v2_vars, text, runs, fn_result, ws_registry, ws_last, agents,
                   cache_task, endpoints, graph>>

(***************************************************************************)
(* handle_patch_cached (main.py 509-622) on one task with several cached   *)
(* files, every format and every way a patch can go wrong.                 *)
(***************************************************************************)
CachePaths == {"/a.txt", "/b.txt"}

\* the arguments of a patch_cached call: "/c.txt" is never cached, "other"
\* is no format of the handler; a replace_range patch that is well formed
\* always applies (a slice assignment does not raise)
PatchCalls ==
    {call \in [tool : {"patch_cached"}, path : {""} \cup CachePaths \cup {"/c.txt"},
               format : {"unified_diff", "replace_regex", "replace_range", "other"},
               patch : {"applies", "malformed", "fails"},
               dry_run : BOOLEAN, content : {"v2", "v3"}] :
        ~(call.format = "replace_range" /\ call.patch = "fails")}

\* main.py 233-243: the content of an fs_read is cached under its path
CacheFile ==
    /\ \E p \in CachePaths :
          cache_task' = [file_cache |-> [q \in DOMAIN cache_task.file_cache \cup {p} |->
                                            IF q = p THEN "v1"
                                            ELSE cache_task.file_cache[q]],
                         last |-> [tool |-> "None"], ok |-> FALSE]
    /\ UNCHANGED <<af_vars, v2_vars, text, runs, fn_result, ws_registry, ws_last, agents,
                   endpoints, graph, legacy>>

\* main.py 318-324: result = await handle_patch_cached(task, call["arguments"])
PatchCached ==
    /\ \E call \in PatchCalls :
          LET r == handle_patch_cached([file_cache |-> cache_task.file_cache], call)
          IN  cache_task' = [file_cache |-> r.file_cache, last |-> call, ok |-> r.ok]
    /\ UNCHANGED <<af_vars, v2_vars, text, runs, fn_result, ws_registry, ws_last, agents,
                   endpoints, graph, legacy>>

(***************************************************************************)
(* websocket_endpoint (main.py 80-126) with WebSocketManager.connect and   *)
(* disconnect: websockets are numbered as they are accepted, connections   *)
(* maps a client id to its websocket (0: no entry), and each accepted      *)
(* websocket has a reader loop until its receive raises.                   *)
(***************************************************************************)
MaxSockets == 3

\* websocket_manager.py 20-30
WebSocketManager_connect(registry, client_id, websocket) ==
    [registry EXCEPT ![client_id] = websocket]

\* websocket_manager.py 32-41
WebSocketManager_disconnect(registry, client_id) ==
    IF registry[client_id] # 0
    THEN [registry EXCEPT ![client_id] = 0]
    ELSE registry

\* The frames a client writes, by their type and the key they lack:
\* text that json.loads rejects, ping, command_result and create_task.
MaxFrames == 2

InboundFrames ==
    {[type |-> "invalid_json", missing |-> "None"], [type |-> "ping", missing |-> "None"]}
        \cup [type : {"command_result"}, missing : {"None", "task_id", "call_id", "ok"}]
        \cup [type : {"create_task"}, missing : {"None", "request_id", "task_kind", "prompt"}]

NoFrame == [reader |-> <<"None", 0>>, frame |-> [type |-> "None", missing |-> "None"]]

\* main.py 92-120: the exception that leaves the body of the reader loop,
\* "None" if the body runs through.  json.loads (94) raises on text that is
\* not JSON, handle_command_result indexes task_id, call_id and ok (196-198);
\* handle_create_task catches what it raises (181).
loop_body_raises(frame) ==
    CASE frame.type = "invalid_json" -> "JSONDecodeError"
      [] frame.type = "command_result" /\ frame.missing # "None" -> "KeyError"
      [] OTHER -> "None"

\* main.py 89: a client opens a websocket under its id; the reader loop starts
EndpointConnect ==
    /\ endpoints.accepted < MaxSockets
    /\ \E c \in WSClients :
          LET websocket == endpoints.accepted + 1
          IN  endpoints' =
                [connections |-> WebSocketManager_connect(endpoints.connections,
                                                          c, websocket),
                 readers |-> endpoints.readers \cup {<<c, websocket>>},
                 newest |-> [endpoints.newest EXCEPT ![c] = websocket],
                 accepted |-> websocket,
                 handled |-> endpoints.handled, last |-> endpoints.last,
                 errors |-> endpoints.errors]
    /\ UNCHANGED <<af_vars, v2_vars, text, runs, fn_result, ws_registry, ws_last, agents,
                   cache_task, graph, legacy>>

\* main.py 122-126: receive_text raises WebSocketDisconnect, or the loop
\* body raises; either handler calls ws_manager.disconnect(client_id)
EndpointReaderEnds ==
    /\ \E reader \in endpoints.readers :
          endpoints' =
            [endpoints EXCEPT
               !.connections = WebSocketManager_disconnect(@, reader[1]),
               !.readers = @ \ {reader}]
    /\ UNCHANGED <<af_vars, v2_vars, text, runs, fn_result, ws_registry, ws_last, agents,
                   cache_task, graph, legacy>>

\* main.py 92-126: the reader loop of a websocket takes one frame.  A frame
\* with all its keys goes to its handler; handle_create_task answers a frame
\* that lacks a key with an error frame, which WebSocketManager.send_to_client
\* writes if the client id is registered; an exception that leaves the body
\* ends the loop through ws_manager.disconnect(client_id).
EndpointFrame ==
    /\ endpoints.handled < MaxFrames
    /\ \E reader \in endpoints.readers, frame \in InboundFrames :
          LET c == reader[1]
              raised == loop_body_raises(frame) # "None"
              error_frame == frame.type = "create_task" /\ frame.missing # "None"
          IN  /\ endpoints' =
                    [endpoints EXCEPT
                       !.connections = IF raised THEN WebSocketManager_disconnect(@, c) ELSE @,
                       !.readers = IF raised THEN @ \ {reader} ELSE @,
                       !.handled = @ + 1,
                       !.last = [reader |-> reader, frame |-> frame],
                       !.errors[c] = IF error_frame /\ endpoints.connections[c] # 0
                                     THEN @ + 1 ELSE @]
              /\ CASE frame.type = "create_task" /\ frame.missing = "None" ->
                        IF TaskIds \subseteq DOMAIN tasks
                        THEN UNCHANGED <<tasks, sched, running, sent, next_call_id>>
                        ELSE \E t \in TaskIds \ DOMAIN tasks :
                                Apply(handle_create_task(World, t))
                   [] frame.type = "command_result" /\ frame.missing = "None" ->
                        \E m \in CommandResults(1..UnknownCallId) :
                            Apply(handle_command_result(World, m))
                   [] OTHER -> UNCHANGED <<tasks, sched, running, sent, next_call_id>>
    /\ UNCHANGED <<connections, cancel_handled, last_batch>>
    /\ UNCHANGED <<v2_vars, text, runs, fn_result, ws_registry, ws_last, agents,
                   cache_task, graph, legacy>>

(***************************************************************************)
(* The agent graph (agents/graph.py, agents/runner.py) for one task.       *)
(* graph.node is the node to run next, or "idle" before AgentRunner.start, *)
(* "interrupted" after interrupt(), "end" and "error"; graph.state is the  *)
(* AgentState, a key that is not set being "absent"; resumed says that act *)
(* is run again with a resume payload for its interrupt.                   *)
(***************************************************************************)
MaxCoderRuns == 3

\* graph.py 69-90: state["last_step"] = the step of the coder; the state is
\* returned with its other keys as they were
decide_next_drops_plan(state, step) ==
    [state EXCEPT !.last_step = step, !.plan = "absent"]

decide_next(state, step) == [state EXCEPT !.last_step = step]

\* runner.py 31-41: ainvoke with {task_id, phase: "plan"}; START -> ensure_plan
RunnerStart ==
    /\ graph.node = "idle"
    /\ graph' = [graph EXCEPT !.node = "ensure_plan"]
    /\ UNCHANGED <<af_vars, v2_vars, text, runs, fn_result, ws_registry, ws_last, agents,
                   cache_task, endpoints, legacy>>

\* graph.py 42-67, and the edge ensure_plan -> decide_next
EnsurePlan ==
    /\ graph.node = "ensure_plan"
    /\ \E plan \in {"p1", "p2"} :
          graph' = IF graph.state.plan # "absent"
                   THEN [graph EXCEPT !.node = "decide_next"]
                   ELSE [graph EXCEPT !.node = "decide_next",
                                      !.planner_runs = @ + 1,
                                      !.state.plan = plan,
                                      !.state.phase = "execute"]
    /\ UNCHANGED <<af_vars, v2_vars, text, runs, fn_result, ws_registry, ws_last, agents,
                   cache_task, endpoints, legacy>>

\* graph.py 69-90, and the edge decide_next -> act
DecideNext ==
    /\ graph.node = "decide_next"
    /\ graph.coder_runs < MaxCoderRuns
    /\ \E step \in {"continue", "need_user", "complete"} :
          graph' = [graph EXCEPT !.node = "act",
                                 !.coder_runs = @ + 1,
                                 !.state = decide_next(@, step)]
    /\ UNCHANGED <<af_vars, v2_vars, text, runs, fn_result, ws_registry, ws_last, agents,
                   cache_task, endpoints, legacy>>

\* graph.py 94-133, and the edge act -> decide_next.  After Command(goto=END)
\* the run ends, or decide_next runs all the same, since the edge from act
\* to decide_next is declared too (144).  interrupt() suspends the run, and
\* returns the payload when act is run again by a resume; act does not keep
\* what interrupt() returns.  task.history is written by execute_tool_calls
\* alone, for the tools it runs on the server.
Act ==
    /\ graph.node = "act"
    /\ \/ /\ graph.state.last_step = "complete"
          /\ \E next \in {"end", "decide_next"} :
                graph' = [graph EXCEPT !.node = next,
                                       !.resumed = FALSE,
                                       !.frames = Append(@, [type |-> "task_update",
                                                             status |-> "completed"]),
                                       !.task_status = "completed"]
       \/ /\ graph.state.last_step = "need_user"
          /\ graph' = [graph EXCEPT !.node = IF graph.resumed THEN "decide_next"
                                             ELSE "interrupted",
                                    !.resumed = FALSE]
       \/ /\ graph.state.last_step = "continue"
          /\ \E outcome \in {"waiting_for_command", "done"} :
                graph' = [graph EXCEPT !.node = IF outcome = "done" \/ graph.resumed
                                                THEN "decide_next" ELSE "interrupted",
                                       !.resumed = FALSE,
                                       !.batches = @ + 1,
                                       !.history = IF outcome = "done"
                                                   THEN Append(@, "tool_result")
                                                   ELSE @]
    /\ UNCHANGED <<af_vars, v2_vars, text, runs, fn_result, ws_registry, ws_last, agents,
                   cache_task, endpoints, legacy>>

\* runner.py 43-57: ainvoke with Command(resume=payload): with the checkpoint
\* of the thread the interrupted node, act, is run again from its start;
\* with none to load the invocation raises
RunnerResume ==
    /\ graph.node = "interrupted"
    /\ \E loaded \in BOOLEAN :
          graph' = [graph EXCEPT !.node = IF loaded THEN "act" ELSE "error",
                                 !.resumed = loaded,
                                 !.payload = IF graph.state.last_step = "need_user"
                                             THEN "answer" ELSE "command_result",
                                 !.resumes = @ + 1]
    /\ UNCHANGED <<af_vars, v2_vars, text, runs, fn_result, ws_registry, ws_last, agents,
                   cache_task, endpoints, legacy>>

(***************************************************************************)
(* Specifications.                                                         *)
(***************************************************************************)
\* the text functions start from a text and nothing returned
FnInit(texts) ==
    /\ AFInit /\ V2Init
    /\ text \in texts /\ runs = 0 /\ fn_result = NoOutput
    /\ ws_registry = {} /\ ws_last = NoSend
    /\ agents = NewLoop
    /\ legacy = NewLegacyLoop
    /\ graph = [node |-> "idle",
                state |-> [plan |-> "absent", phase |-> "plan", last_step |-> "absent"],
                resumed |-> FALSE, planner_runs |-> 0, coder_runs |-> 0, batches |-> 0,
                resumes |-> 0, frames |-> << >>, task_status |-> "running",
                payload |-> "None", history |-> << >>]
    /\ endpoints = [connections |-> [c \in WSClients |-> 0], readers |-> {},
                    newest |-> [c \in WSClients |-> 0], accepted |-> 0,
                    handled |-> 0, last |-> NoFrame,
                    errors |-> [c \in WSClients |-> 0]]
    /\ cache_task = [file_cache |-> [p \in {} |-> "v1"], last |-> [tool |-> "None"], ok |-> FALSE]

\* no text function is under way
Init == FnInit({<< >>})

Spec == Init /\ [][Next]_vars

SpecRound == Init /\ [][NextRound]_vars

SpecBatch == Init /\ [][NextBatch]_vars

SpecV2 == Init /\ [][NextV2]_vars

SpecSanitize == FnInit(SanitizeInputs) /\ [][Sanitize]_vars

SpecExtract == FnInit(StringsUpTo({LB, RB, "a"}, MaxTextLen)) /\ [][Extract]_vars

SpecValidate == FnInit(ExecutorTexts) /\ [][Validate]_vars

SpecWS == Init /\ [][WSConnect \/ WSDisconnect \/ WSSend]_vars

SpecAgents == Init /\ [][PlannerRun \/ ExecutorRun \/ ToolRun]_vars

SpecPatch == Init /\ [][CacheFile \/ PatchCached]_vars

SpecEndpoint == Init /\ [][EndpointConnect \/ EndpointReaderEnds]_vars

\* The reader loops of the endpoint with the tasks their frames act on.
SpecReader ==
    Init /\ [][EndpointConnect \/ EndpointFrame \/ ProcessTaskStart
                \/ ProcessTaskResume]_vars

\* The orchestrator with clients that answer only call ids they were sent.
SpecActivation ==
    Init /\ [][Connect \/ Disconnect \/ CreateTask \/ AnswerSentCall \/ CancelTask
                \/ ProcessTaskStart \/ ProcessTaskResume]_vars

SpecLegacy == Init /\ [][LegacyAgentRun \/ LegacyToolRun]_vars

SpecGraph ==
    Init /\ [][RunnerStart \/ EnsurePlan \/ DecideNext \/ Act \/ RunnerResume]_vars

\* The event loop runs every coroutine that is ready, every model call
\* returns, and a timer that is armed fires.  Nothing is assumed of the
\* client.
FairSpecV2 ==
    /\ SpecV2
    /\ WF_vars(V2ProcessTaskStart)
    /\ WF_vars(V2LoopStep)
    /\ WF_vars(V2TimeoutFires)
    /\ WF_vars(V2CallResume)

(***************************************************************************)
(* Properties of the agent_framework orchestrator (specification Spec).    *)
(***************************************************************************)
TerminalStatuses == {COMPLETED, FAILED, CANCELLED}

\* C1: in every reachable state a task's pending_call_id is set if and
\* only if its status is WAITING_FOR_COMMAND.
C1_PendingIffWaiting ==
    \A t \in DOMAIN tasks :
        (tasks[t].pending_call_id # None) <=> (tasks[t].status = WAITING_FOR_COMMAND)

\* C2: once a task is completed, failed or cancelled, no step changes its
\* status, result, error, history, pending call or file_cache.
C2_TerminalImmutable ==
    [][\A t \in DOMAIN tasks :
          tasks[t].status \in TerminalStatuses =>
              /\ tasks'[t].status = tasks[t].status
              /\ tasks'[t].result = tasks[t].result
              /\ tasks'[t].error = tasks[t].error
              /\ tasks'[t].history = tasks[t].history
              /\ tasks'[t].pending_call_id = tasks[t].pending_call_id
              /\ tasks'[t].pending_command = tasks[t].pending_command
              /\ tasks'[t].file_cache = tasks[t].file_cache]_vars

\* C3: after a cancel_task frame for a task has been handled, no
\* command_call, user_question, task_completed or task_failed frame is sent
\* for it.
C3_SilentAfterCancel ==
    [][\A t \in TaskIds :
          cancel_handled[t] =>
              \A f \in {"command_call", "user_question", "task_completed", "task_failed"} :
                  sent'[t][f] = sent[t][f]]_vars

\* C4: at most one task_completed and at most one task_failed frame are
\* sent for a task, and never both.
C4_OneTerminalFrame ==
    \A t \in TaskIds :
        sent[t]["task_completed"] + sent[t]["task_failed"] <= 1

Delivered(w) ==
    <<w.tasks, w.sched, w.running, w.sent, w.next_call_id>>

\* C6: delivering the same command_result frame twice leaves the task state
\* and the frames sent as delivering it once does, for ok=true and ok=false
\* results, the one that reaches the error cap included.
C6_ResultIdempotent ==
    \A m \in CommandResults(1..UnknownCallId) :
        m.task_id \in DOMAIN tasks =>
            Delivered(handle_command_result(handle_command_result(World, m), m))
                = Delivered(handle_command_result(World, m))

\* C7: consecutive_errors never exceeds max_consecutive_errors, whatever
\* command_result frames arrive.
C7_ErrorsWithinCap ==
    \A t \in DOMAIN tasks :
        tasks[t].consecutive_errors <= max_consecutive_errors

\* s is a fenced block or sits between two backticks
Wrapped(s) ==
    LET stripped == Strip(s)
    IN  \/ FencedBody(stripped).matched
        \/ Len(stripped) >= 2 /\ stripped[1] = BT /\ stripped[Len(stripped)] = BT

\* C15 as stated: sanitize_code_content is idempotent: applied to what it
\* returned, it returns it unchanged, for content in nested fences or
\* backticks too.
C15_SanitizeIdempotent ==
    [][(runs >= 1 /\ runs' = runs + 1) => text' = text]_vars

\* C15: sanitize_code_content removes one wrapper per call: applied to what
\* it returned it returns it unchanged whenever what it returned is not
\* itself a fenced block or between backticks, so it is idempotent on
\* content with no wrapper or one.
C15_OneLayerIdempotent ==
    [][(runs >= 1 /\ runs' = runs + 1 /\ ~Wrapped(text)) => text' = text]_vars

\* a fenced block whose body has white space at an end was sanitized twice
C15_Witness ==
    /\ runs = 2
    /\ ~Wrapped(text)
    /\ Strip(text) # text

\* C26: a call of sanitize_code_content on content that is entirely wrapped
\* removes one layer and no more: what it returns, put back between the
\* fence lines or between the backticks (with the white space that was next
\* to them), is the content without its outer white space; content that is
\* not entirely wrapped is returned unchanged.
C26_ExactlyOneLayer ==
    [][runs' = runs + 1 =>
          LET stripped == Strip(text) IN
          IF ~Wrapped(text) THEN text' = text
          ELSE \/ \E word \in StringsUpTo({"a"}, MaxFencedLen) :
                    stripped = Fence \o word \o <<NL>> \o text' \o <<NL>> \o Fence
               \/ /\ Strip(text') = text'
                  /\ \E l, r \in StringsUpTo({SP, NL}, MaxContentLen) :
                        stripped = <<BT>> \o l \o text' \o r \o <<BT>>]_vars

\* one call on a fenced block inside a fenced block gave the inner block
C26_Witness ==
    /\ runs = 1
    /\ FencedBody(text).matched

\* C18: WebSocketManager.send_to_client never raises; it returns False and
\* leaves the registry as it was when the client id is not registered or
\* when serialising or writing the frame fails, and returns True only after
\* the write went through.
C18_SendNeverRaises ==
    [][ws_last' # ws_last =>
        /\ ~ws_last'.raised
        /\ ws_last'.value => ws_last'.written /\ ws_last'.write_ok
        /\ (~ws_last'.registered \/ ~ws_last'.serialisable \/ ~ws_last'.write_ok) =>
               ~ws_last'.value /\ ws_registry' = ws_registry]_vars

\* a write to a registered client failed: False, and the client is still registered
C18_Witness ==
    /\ ws_last.called
    /\ ws_last.registered /\ ~ws_last.write_ok
    /\ ~ws_last.value
    /\ ws_last.client_id \in ws_registry

\* the last brace-balanced object of the text, parsed
LastObject == parse_json(extract_last_json_object(text).value)

\* a tool call that names a known tool and has its parameters, no other keys
NamesValidCall(obj) ==
    /\ obj.valid
    /\ obj.tool \in ToolNames
    /\ ValidatesAsCall(obj, obj.tool)

\* C16: validate_executor_text returns a response only when the last
\* brace-balanced JSON object of the text is a schema-valid tool call (a
\* known tool name with the parameters declared for that tool, no extra
\* keys) or a schema-valid final result; it raises ValueError when the text
\* has no JSON object and a validation error otherwise.
C16_OnlyValidatedOutput ==
    runs = 1 =>
        IF ~extract_last_json_object(text).some
        THEN fn_result = Raised("ValueError")
        ELSE IF NamesValidCall(LastObject) \/ (LastObject.valid /\ ValidatesAsFinal(LastObject))
        THEN fn_result.raised = "None"
        ELSE fn_result = Raised("ValidationError")

\* how many times ch occurs in s[i..j]
Occurrences(s, i, j, ch) == Cardinality({k \in i..j : s[k] = ch})

\* the opening braces of s that balance the closing brace at c: as many
\* opening as closing braces from there to c
BalancedOpens(s, c) ==
    {i \in 1..c : s[i] = LB /\ Occurrences(s, i, c, LB) = Occurrences(s, i, c, RB)}

\* the opening brace matched to the closing brace at c: the nearest one
MatchedOpen(s, c) == CHOOSE i \in BalancedOpens(s, c) : \A j \in BalancedOpens(s, c) : j <= i

\* C17 as stated: None when the text has no closing brace, otherwise the
\* substring from the opening brace matched to the last closing brace up to
\* that closing brace.
C17_AlwaysAnObject ==
    runs = 1 =>
        LET c == rfind(text, RB)
        IN  IF c = 0 THEN fn_result = ReturnNone
            ELSE /\ BalancedOpens(text, c) # {}
                 /\ fn_result = Return(SubSeq(text, MatchedOpen(text, c), c))

\* C17: extract_last_json_object returns None when the text has no closing
\* brace or its last closing brace has no matching opening brace; otherwise
\* it returns the substring from the opening brace matched, by brace
\* counting, to the last closing brace of the text up to that closing brace.
C17_LastObject ==
    runs = 1 =>
        LET c == rfind(text, RB)
        IN  IF c = 0 \/ BalancedOpens(text, c) = {} THEN fn_result = ReturnNone
            ELSE fn_result = Return(SubSeq(text, MatchedOpen(text, c), c))

\* prose before a nested object: the object is returned whole, without the prose
C17_Witness ==
    /\ runs = 1
    /\ fn_result.some
    /\ text[1] = "a"
    /\ Len(fn_result.value) < Len(text)
    /\ Occurrences(fn_result.value, 1, Len(fn_result.value), LB) >= 2

\* C14: the history of a task is append-only: no step shortens it or
\* changes, removes or reorders an entry it holds.
C14_HistoryAppendOnly ==
    [][\A t \in DOMAIN tasks :
          /\ t \in DOMAIN tasks'
          /\ Len(tasks'[t].history) >= Len(tasks[t].history)
          /\ SubSeq(tasks'[t].history, 1, Len(tasks[t].history)) = tasks[t].history]_vars

\* tool results and a command result have been appended after the system
\* prompt and the response
C14_Witness ==
    \E t \in DOMAIN tasks :
        /\ Len(tasks[t].history) >= 5
        /\ tasks[t].history[1] = "system"
        /\ tasks[t].history[2] = "assistant"
        /\ tasks[t].history[Len(tasks[t].history)] = "assistant"
        /\ tasks[t].status = COMPLETED

\* the paths of the fs_read calls the model issues
ReadPaths == {c.path : c \in {x \in ToolCalls : x.tool = "fs_read"}}

\* C13: when an ok=true command_result that carries content is accepted for
\* the pending fs_read of path P, file_cache[P] is that content afterwards.
C13_ReadIsCached ==
    \A m \in CommandResults(1..UnknownCallId) :
        (/\ m.task_id \in DOMAIN tasks
         /\ m.ok
         /\ m.result.has_content
         /\ tasks[m.task_id].pending_command = "fs_read"
         /\ tasks[m.task_id].pending_call_id = m.call_id) =>
            LET cache == handle_command_result(World, m).tasks[m.task_id].file_cache
            IN  \A P \in ReadPaths : P \in DOMAIN cache /\ cache[P] = m.result.content

ErrorEntries(n) == [i \in 1..n |-> "tool_err"]

C21_BatchStopsAtRemote ==
    [][\A t \in DOMAIN tasks :
          last_batch'[t] # last_batch[t] =>
          LET b == last_batch'[t]
              old == tasks[t]
              Frames(s) == s[t]["command_call"] + s[t]["user_question"]
              \* the calls that end the batch: allowed, not a local tool, and
              \* not an fs_write_cached that fails (path not cached, send failed)
              Stops == {i \in 1..Len(b) :
                          /\ b[i].tool \in old.allowed_commands
                          /\ b[i].tool \notin {"send_status", "patch_cached",
                                               "lua_check_cached", "diff_cached"}
                          /\ ~(b[i].tool = "fs_write_cached"
                                  /\ (b[i].path \notin DOMAIN old.file_cache
                                         \/ connections # "up"))}
              appended == Len(tasks'[t].history) - Len(old.history) - 1
          IN  /\ Frames(sent') <= Frames(sent) + 1
              /\ IF Stops = {}
                 THEN /\ Frames(sent') = Frames(sent)
                      /\ appended = Len(b)
                      /\ sched'[t] = sched[t] + 1
                 ELSE LET k == CHOOSE i \in Stops : \A j \in Stops : i <= j
                          r == process_task_resume(World, t,
                                   [kind |-> "tools", tool_calls |-> SubSeq(b, 1, k)])
                          turned_down == b[k].tool = "ask_user" /\ b[k].flag
                      IN  /\ appended = (k - 1) + (IF turned_down THEN 1 ELSE 0)
                          /\ Frames(sent') = Frames(sent)
                                + (IF turned_down \/ connections # "up" THEN 0 ELSE 1)
                          /\ tasks'[t] = r.tasks[t]
                          /\ sent'[t] = r.sent[t]
                          /\ sched'[t] = r.sched[t]
                          /\ next_call_id' = r.next_call_id]_vars

\* a batch of fs_read then send_status: the read went to the client, the
\* status was never sent
C21_Witness ==
    \E t \in DOMAIN tasks :
        /\ Len(last_batch[t]) = 2
        /\ last_batch[t][1].tool = "fs_read"
        /\ last_batch[t][2].tool = "send_status"
        /\ sent[t]["command_call"] = 1
        /\ sent[t]["status_update"] = 0
        /\ tasks[t].pending_command = "fs_read"

\* C22: when handle_ask_user turns a question down, no user_question frame
\* is sent and no pending call is set, the rejection is appended to history,
\* and execute_tool_calls goes on with the remaining calls of the batch.
C22_RejectedQuestionAdvances ==
    [][\A t \in DOMAIN tasks :
          (/\ last_batch'[t] # last_batch[t]
           /\ last_batch'[t][1].tool = "ask_user"
           /\ last_batch'[t][1].flag
           /\ "ask_user" \in tasks[t].allowed_commands) =>
          LET b == last_batch'[t]
              turned_down == add_to_history(add_to_history(World, t, "assistant"),
                                            t, format_tool_result("rejected"))
              r == execute_tool_calls(turned_down, t, Tail(b))
          IN  /\ SubSeq(tasks'[t].history, 1, Len(tasks[t].history) + 2)
                    = turned_down.tasks[t].history
              /\ tasks'[t] = r.tasks[t]
              /\ sent'[t] = r.sent[t]]_vars

\* C27: handle_patch_cached leaves file_cache as it was when dry_run is set
\* or when it returns ok = false, which it does for a missing or uncached
\* path, an unknown format, and a patch that is malformed or fails to apply;
\* when it returns ok = true without dry_run only file_cache[path] changes.
C27_PatchFrame ==
    [][cache_task'.last.tool = "patch_cached" =>
          LET call == cache_task'.last
              old == cache_task.file_cache
              new == cache_task'.file_cache
          IN  /\ (call.dry_run \/ ~cache_task'.ok) => new = old
              /\ (\/ call.path = "" \/ call.path \notin DOMAIN old
                  \/ call.format = "other"
                  \/ call.patch \in {"malformed", "fails"}) => ~cache_task'.ok
              /\ (cache_task'.ok /\ ~call.dry_run) =>
                     /\ DOMAIN new = DOMAIN old
                     /\ \A p \in DOMAIN old \ {call.path} : new[p] = old[p]]_vars

\* a patch was applied to one of two cached files
C27_Witness ==
    /\ cache_task.ok /\ ~cache_task.last.dry_run
    /\ cache_task.last.path = "/a.txt"
    /\ DOMAIN cache_task.file_cache = CachePaths
    /\ cache_task.file_cache["/a.txt"] = "v2"
    /\ cache_task.file_cache["/b.txt"] = "v1"

\* C28: after a second connect under a client id the registry holds the new
\* websocket, and the client stays registered with it until the new
\* connection itself ends: while the reader loop of the newest websocket of
\* a client runs, connections maps the client to that websocket, whatever
\* becomes of the websockets it replaced.
C28_ReplacedReaderHarmless ==
    \A c \in WSClients :
        <<c, endpoints.newest[c]>> \in endpoints.readers =>
            endpoints.connections[c] = endpoints.newest[c]

\* C29: along an execution of the agent graph, suspensions and resumes
\* included, the planner agent is invoked at most once and the plan in the
\* graph state never changes once it is set.
C29_PlanOnce ==
    [][/\ graph'.planner_runs <= 1
       /\ graph.state.plan # "absent" => graph'.state.plan = graph.state.plan]_vars

\* the run was suspended and resumed and the coder decided again
C29_Witness ==
    /\ graph.planner_runs = 1
    /\ graph.state.plan # "absent"
    /\ graph.resumes >= 1
    /\ graph.coder_runs >= 2
    /\ graph.node = "act"

\* C30: when the stored executor step has status complete, act sends a
\* task_completed frame to the client of the task and marks the task
\* completed, and neither decide_next nor act runs for the task afterwards.
C30_CompleteIsTerminal ==
    [][(graph.node = "act" /\ graph.state.last_step = "complete" /\ graph' # graph) =>
          /\ graph'.frames = Append(graph.frames, [type |-> "task_completed",
                                                   status |-> "completed"])
          /\ graph'.task_status = "completed"
          /\ graph'.node = "end"]_vars

\* C32: every command_result accepted for the pending call of a task, ok or
\* not and the one that brings consecutive_errors to the cap included, and
\* every tool call that execute_tool_calls runs on the server appends at
\* least one entry to the history of the task.
C32_OutcomeInHistory ==
    /\ \A m \in CommandResults(1..UnknownCallId) :
          (/\ m.task_id \in DOMAIN tasks
           /\ tasks[m.task_id].pending_call_id = m.call_id) =>
              Len(handle_command_result(World, m).tasks[m.task_id].history)
                  > Len(tasks[m.task_id].history)
    /\ \A t \in DOMAIN tasks :
          \A call \in ToolCalls :
              (\/ call.tool \notin tasks[t].allowed_commands
               \/ call.tool \in {"send_status", "patch_cached", "lua_check_cached",
                                 "diff_cached"}) =>
                  Len(execute_tool_calls(World, t, <<call>>).tasks[t].history)
                      > Len(tasks[t].history)

\* C33: a model response with parse errors is appended to history with a
\* remediation message after it, and it counts toward consecutive_errors:
\* the counter of the task goes up by one.
C33_ParseErrorCounts ==
    \A t \in DOMAIN tasks :
        running[t] > 0 =>
            LET after == process_task_resume(World, t,
                             [kind |-> "parse_errors", tool_calls |-> << >>]).tasks[t]
            IN  /\ after.history = tasks[t].history \o <<"assistant", "system_error">>
                /\ after.consecutive_errors = tasks[t].consecutive_errors + 1

\* C34: whenever a batch records a new pending call for a task while its client
\* is not connected (so the command_call or user_question frame cannot be
\* written), that same step leaves the task FAILED rather than waiting for a
\* result that can never arrive.
C34_FailedSendFailsTask ==
    [][\A t \in DOMAIN tasks :
          (/\ t \in DOMAIN tasks'
           /\ connections # "up"
           /\ tasks'[t].pending_call_id # None
           /\ tasks'[t].pending_call_id # tasks[t].pending_call_id) =>
              tasks'[t].status = FAILED]_vars

\* C35: at most one process_task activation of a task is running or scheduled
\* at any time, and a pending call is never replaced by a second dispatch
\* before it is resolved.
C35_OneActivation ==
    [][\A t \in DOMAIN tasks :
          /\ sched'[t] + running'[t] <= 1
          /\ (/\ t \in DOMAIN tasks'
              /\ tasks[t].pending_call_id # None
              /\ tasks'[t].pending_call_id # None) =>
                 tasks'[t].pending_call_id = tasks[t].pending_call_id]_vars

\* C36: a frame that is not valid JSON, or a command_result frame that lacks
\* task_id, call_id or ok, ends the reader loop that took it and leaves its
\* client id unregistered and every task as it was; a create_task frame that
\* lacks request_id, task_kind or prompt gets an error frame, and the reader
\* loop goes on with the client id registered and no task changed.
C36_MalformedFrames ==
    [][endpoints'.handled = endpoints.handled + 1 =>
          LET reader == endpoints'.last.reader
              frame == endpoints'.last.frame
              c == reader[1]
          IN  /\ (\/ frame.type = "invalid_json"
                  \/ frame.type = "command_result" /\ frame.missing # "None") =>
                     /\ reader \notin endpoints'.readers
                     /\ endpoints'.connections[c] = 0
                     /\ tasks' = tasks
              /\ (frame.type = "create_task" /\ frame.missing # "None") =>
                     /\ endpoints'.errors[c] = endpoints.errors[c] + 1
                     /\ reader \in endpoints'.readers
                     /\ endpoints'.connections[c] # 0
                     /\ tasks' = tasks]_vars

\* C37: the entries that build_planner_context lists under step i, the
\* directive, the executor tool request and the tool result, come from
\* iteration i of the loop: whenever an iteration appends to one of the three
\* lists of the memory, the new entry is at the index of that iteration.
C37_StepsAligned ==
    [][LET iteration == agents.step + 1
       IN  /\ agents'.memory.directives # agents.memory.directives =>
                  agents'.memory.directives = iteration
           /\ agents'.memory.tool_requests # agents.memory.tool_requests =>
                  agents'.memory.tool_requests = iteration
           /\ agents'.memory.tool_results # agents.memory.tool_results =>
                  agents'.memory.tool_results = iteration]_vars

\* C38: execute_task_with_agent returns a final response only when
\* last_written_file is None, and so only when no path is left that was
\* written with success, or written and run with a failure, without a later
\* cc_run_program of that path or a later cc_write_and_run reporting success.
C38_FinalOnlyWhenTested ==
    legacy.pc = "returned" =>
        /\ legacy.last_written_file = "None"
        /\ legacy.untested = {}

\* C31: when a task suspended on a need_user step is resumed with the
\* answer of the user, the answer is in the history of the task before
\* decide_next runs again, so that the next prompt of the coder holds it.
C31_AnswerInHistory ==
    (/\ graph.node = "decide_next"
     /\ graph.state.last_step = "need_user"
     /\ graph.payload = "answer") =>
        \E i \in DOMAIN graph.history : graph.history[i] = "answer"

(***************************************************************************)
(* Properties of execute_task_with_two_agents.                             *)
(***************************************************************************)
\* the directive names a tool and the validated response is not what it asks
\* for: a final result when no task_complete was asked, or another tool
Mismatch(a) ==
    /\ a.json_obj \notin {"None", "absent"}
    /\ a.executor_result.kind # "None"
    /\ \/ a.executor_result.kind = "final" /\ a.json_obj # "task_complete"
       \/ a.executor_result.kind = "tool" /\ a.executor_result.tool # a.json_obj

\* the iteration is over with one more failed entry and no tool run; the
\* planner is next, or the loop has used up max_steps
HandedBack(a, b) ==
    /\ b.step = a.step + 1
    /\ b.pc = IF b.step < max_steps THEN "planner" ELSE "raised"
    /\ Len(b.appended) = Len(a.appended) + 1
    /\ b.appended[Len(b.appended)] \notin {"ok"}
    /\ ~b.tool_called /\ b.frames = 0
    /\ b.recent_tools = a.recent_tools

\* C23: when the directive of a step names a tool, a tool is executed in the
\* step only if it has that name, and a final result ends the task only if
\* the directive names task_complete; a mismatch is retried with the
\* executor once at most and then handed back to the planner.
C23_DirectiveObeyed ==
    [][/\ agents'.json_obj \notin {"None", "absent"} =>
             /\ (agents'.pc = "tool" \/ agents'.tool_called) =>
                    /\ agents'.executor_result.kind = "tool"
                    /\ agents'.executor_result.tool = agents'.json_obj
             /\ agents'.pc = "returned" => agents'.json_obj = "task_complete"
       /\ (/\ agents.pc \in {"executor1", "executor2", "executor3"}
           /\ agents'.executor_result.kind # "None"
           /\ agents'.validation_errors > agents.validation_errors
           /\ Mismatch(agents')) =>
             IF agents.pc = "executor1"
             THEN /\ agents'.pc = "executor3"
                  /\ agents'.step = agents.step
                  /\ agents'.appended = agents.appended
             ELSE HandedBack(agents, agents')]_vars

\* an early final was turned down twice and the planner is next
C23_Witness ==
    /\ agents.pc = "planner" /\ agents.step > 0
    /\ agents.json_obj = "cc_read"
    /\ agents.executor_runs = 2
    /\ agents.executor_result.kind # "None" /\ agents.executor_result.kind = "final"
    /\ agents.appended = <<"EXECUTOR_COMPATIBILITY_ERROR">>

\* C24: the executor is invoked at most twice in a loop step; when both
\* outputs fail validation nothing is dispatched and no final is accepted,
\* one failed entry with the validation errors is appended, and the loop
\* goes on with the planner.
C24_TwoStrikes ==
    [][/\ agents'.executor_runs <= 2
       /\ (/\ agents.pc = "executor2"
           /\ agents' # agents
           /\ agents'.executor_result.kind = "None") =>
             /\ agents'.executor_runs = 2
             /\ agents'.validation_errors = 2
             /\ agents'.appended = <<"EXECUTOR_VALIDATION_ERROR">>
             /\ ~agents'.reached_dispatch
             /\ agents'.pc # "returned"
             /\ HandedBack(agents, agents')]_vars

\* both executor outputs of a step failed validation
C24_Witness ==
    /\ agents.pc = "planner" /\ agents.step > 0
    /\ agents.executor_runs = 2 /\ agents.validation_errors = 2
    /\ agents.executor_result.kind = "None"
    /\ agents.appended = <<"EXECUTOR_VALIDATION_ERROR">>

\* C25: of the same call reaching dispatch in succession the first two are
\* executed; the third is turned down with a duplicate-call error in
\* tool_results, the tool function is not called and no command_call frame
\* is sent for it.
C25_ThirdDuplicateRejected ==
    agents.reached_dispatch =>
        IF agents.run_length >= 3
        THEN /\ agents.appended = <<"DUPLICATE_TOOL_CALL_ERROR">>
             /\ ~agents.tool_called /\ agents.frames = 0
             /\ agents.pc # "tool"
        ELSE /\ agents.pc = "tool" \/ agents.tool_called
             /\ \A i \in DOMAIN agents.appended :
                    agents.appended[i] # "DUPLICATE_TOOL_CALL_ERROR"

\* the third of three identical calls has been turned down
C25_Witness ==
    /\ agents.reached_dispatch /\ agents.run_length = 3
    /\ agents.appended = <<"DUPLICATE_TOOL_CALL_ERROR">>
    /\ ~agents.tool_called

(***************************************************************************)
(* Properties of the CCLLMV2 orchestrator (SpecV2, FairSpecV2).            *)
(***************************************************************************)
TerminalFrameOf(status) ==
    IF status = "completed" THEN "task_completed" ELSE "task_failed"

\* C5: with model calls that return and a fair event loop, every task
\* started by a create_task frame ends completed or failed and hands exactly
\* one terminal frame (task_completed or task_failed) to the channel,
\* whether or not its command_call frames are answered.
C5_EveryTaskEnds ==
    /\ \A t \in V2Tasks : (coro[t].pc # "idle") ~> (coro[t].pc = "done")
    /\ [](\A t \in V2Tasks :
            IF coro[t].pc = "done"
            THEN /\ active_tasks[t] \in {"completed", "failed"}
                 /\ Len(terminal_frames[t]) = 1
                 /\ terminal_frames[t][1].type = TerminalFrameOf(active_tasks[t])
            ELSE /\ terminal_frames[t] = << >>
                 /\ active_tasks[t] \in {"none", "running"})

\* a task whose command_call was never answered has ended with its one frame
C5_Witness ==
    \E t \in V2Tasks :
        /\ coro[t].pc = "done"
        /\ coro[t].outcome = "error:timeout"
        /\ Len(terminal_frames[t]) = 1

\* C8: the loop runs at most max_steps iterations and so at most max_steps
\* tools; when the iterations are used up without a final response the
\* task is marked failed and one task_failed frame is sent.
C8_StepBudget ==
    \A t \in V2Tasks :
        /\ coro[t].step <= max_steps
        /\ coro[t].tools_run <= max_steps
        /\ coro[t].tools_run <= coro[t].step + (IF coro[t].pc = "call" THEN 1 ELSE 0)
        /\ coro[t].step = max_steps =>
              /\ coro[t].pc = "done"
              /\ active_tasks[t] = "failed"
              /\ terminal_frames[t] =
                    << [type |-> "task_failed", error |-> "exceeded maximum steps"] >>
        /\ (coro[t].pc = "done" /\ active_tasks[t] = "completed") =>
              coro[t].step < max_steps

\* every iteration ran a tool and none produced a final response
C8_Witness ==
    \E t \in V2Tasks :
        /\ coro[t].step = max_steps
        /\ coro[t].tools_run = max_steps
        /\ active_tasks[t] = "failed"

\* C9: when the client's connection closes while its task is blocked in
\* call_cc_command, the task leaves the call only to end failed with a
\* transport-disconnected error; it does not go on to plan another step.
C9_DisconnectEndsTask ==
    [][\A t \in V2Tasks :
          (coro[t].pc = "call" /\ v2_connections = "absent" /\ coro'[t].pc # "call") =>
              /\ coro'[t].pc = "done"
              /\ active_tasks'[t] = "failed"
              /\ terminal_frames'[t] =
                    << [type |-> "task_failed", error |-> "transport disconnected"] >>]_vars

FailedOutcomes ==
    {"error:remote", "error:timeout", "error:send", "error:local"}

\* the step in which a tool of task t ends in failure: the call resumes on
\* an ok=false result or on a timeout, or a tool run in this step raises
\* without having been dispatched (failed send, local cache tool)
ToolFails(t) ==
    \/ /\ coro[t].pc = "call"
       /\ coro[t].future \in {"exception", "cancelled"}
       /\ coro'[t].pc # "call"
    \/ /\ coro[t].pc = "model"
       /\ coro'[t].tools_run = coro[t].tools_run + 1
       /\ coro'[t].pc # "call"
       /\ coro'[t].outcome # "result"

\* C11: a tool failure (ok=false result, timeout, failed send, exception of
\* a local cache tool) appends exactly one failed entry to tool_results and
\* the loop goes on with the next planner step; the task ends in that step
\* only when the iteration was the last of the step budget, and then with
\* the budget error.
C11_ToolFailureContinues ==
    [][\A t \in V2Tasks :
          ToolFails(t) =>
              /\ coro'[t].tool_results = coro[t].tool_results + 1
              /\ coro'[t].outcome \in FailedOutcomes
              /\ coro'[t].step = coro[t].step + 1
              /\ IF coro[t].step + 1 < max_steps
                 THEN /\ coro'[t].pc = "model"
                      /\ active_tasks'[t] = "running"
                      /\ terminal_frames'[t] = << >>
                 ELSE /\ coro'[t].pc = "done"
                      /\ terminal_frames'[t] =
                            << [type |-> "task_failed", error |-> "exceeded maximum steps"] >>]_vars

\* the third tool of a task, a local cache tool, has failed and the task plans again
C11_Witness ==
    \E t \in V2Tasks :
        /\ coro[t].pc = "model"
        /\ coro[t].outcome = "error:local"
        /\ coro[t].tool_results = 3
        /\ coro[t].tools_run = 3


\* C19: when a waiter times out inside call_cc_command and a command_result
\* for the same (task_id, call_id) arrives, in any order, handling the
\* result delivers it to the waiter or drops it: it never raises, so the
\* reader loop never deregisters the sender's connection because of it.
C19_LateResultHarmless == ~reader_error

\* C20: pending_results holds an entry for (task_id, call_id) only while the
\* task is inside call_cc_command for that call: a task has at most one
\* entry, and none once call_cc_command has returned or raised or the task
\* has finished.
C20_WaiterOnlyDuringCall ==
    \A t \in V2Tasks :
        LET mine == {k \in pending_results : k[1] = t}
        IN  /\ Cardinality(mine) <= 1
            /\ mine # {} => coro[t].pc = "call" /\ mine = {Key(t, coro[t].call_id)}

\* a send failed inside call_cc_command: the call has raised and no entry is left
C20_Witness ==
    \E t \in V2Tasks :
        /\ coro[t].outcome = "error:send"
        /\ coro[t].pc # "call"
        /\ pending_results = {}

\* C10: a dispatched call for which no command_result arrives ends with a
\* timeout error, and once a call has ended its (task_id, call_id) waiter is
\* not in pending_results.
C10_CallTimesOut ==
    /\ \A t \in V2Tasks : (coro[t].pc = "call") ~> (coro[t].pc # "call")
    /\ [][\A t \in V2Tasks :
            (coro[t].pc = "call" /\ coro'[t].pc # "call"
                /\ coro[t].future \notin {"result", "exception"}) =>
                coro'[t].outcome = "error:timeout"]_vars
    /\ [](\A t \in V2Tasks :
            coro[t].pc # "call" =>
                \A id \in V2CallIds : Key(t, id) \notin pending_results)

\* a call that was never answered has ended and left no waiter behind
C10_Witness ==
    \E t \in V2Tasks :
        /\ coro[t].pc = "model"
        /\ coro[t].outcome = "error:timeout"
        /\ pending_results = {}

====
